---- MODULE Spec2Model ----
(***************************************************************************)
(* The validation-and-deduplication pipeline of the turmeric buyer         *)
(* scraper: AdvancedDataValidator (src/advanced_validator.py), the score   *)
(* of DataValidator (src/data_validator.py) and the pipeline steps of      *)
(* start_scraping (src/app.py).                                            *)
(*                                                                         *)
(* A Python str is a sequence of one-character strings.  A dict value is   *)
(* [t, s]: t = "str" with the characters s, "none" (None), "num" (a truthy *)
(* value that is no str, such as an int) or "absent" (the key is missing). *)
(* Python lists hold references: a list is a sequence of object ids and    *)
(* heap maps an id to the dict it names.                                   *)
(***************************************************************************)
EXTENDS Integers, Sequences, FiniteSets, TLC

VARIABLES
    pc,                   \* where the pipeline run stands
    min_validation_score, \* the threshold chosen in the sidebar (app.py:108)
    heap,                 \* id -> dict
    source_data,          \* the batch handed over by the source collector
    pos,                  \* remove_duplicates_advanced: records scanned so far
    unique_buyers,        \* remove_duplicates_advanced: kept records
    seen_companies,
    seen_emails,
    seen_phones,
    validated_buyers,     \* validate_batch_data: results so far
    valid_buyers,         \* filter_valid_buyers_only: its result
    dv_result,            \* DataValidator.validate_company_data: its result
    validation_results,   \* validate_complete_buyer_data: the call in progress
    reply,                \* what the resolver, phonenumbers or the web server
                          \* answered to the last field validator
    mock,                 \* the constant answers of a mocked network, if any
    deadline,             \* the batch-level deadline of the run: has it passed,
                          \* and how many validations were complete when it did
    futures,              \* DataValidator.validate_batch_data: the future of
                          \* each company, in the order of companies_data
    validated_companies,  \* DataValidator.validate_batch_data: results so far
    existing_df,          \* merge_dataframes: the accumulated dataset
    new_df,               \* merge_dataframes: the newly processed data
    combined_df,          \* merge_dataframes: what it returns
    scraping_in_progress, \* st.session_state.scraping_in_progress
    terms_list,           \* start_scraping: the search terms
    sources,              \* start_scraping: the sources selected
    term_index,           \* start_scraping: the term the outer loop is at
    source_index,         \* start_scraping: the source the inner loop is at
    target_count,         \* start_scraping: its parameter
    collected_data,       \* start_scraping: the buyers collected
    total_collected,      \* start_scraping: their count, as last stored
    second_pass,          \* remove_duplicates_advanced runs on its own output
    max_retries,          \* _make_request: its parameter
    advanced,             \* is the call one of _make_advanced_request
    attempt,              \* _make_request: the variable of its loop
    tried,                \* _make_request: iterations begun
    failed,               \* _make_request: iterations ended by a request error
    slept,                \* _make_request: the waits taken, in order
    response              \* _make_request: what it returned

vars == <<pc, min_validation_score, heap, source_data, pos, unique_buyers,
          seen_companies, seen_emails, seen_phones, validated_buyers,
          valid_buyers, dv_result, validation_results, reply, mock,
          deadline, futures, validated_companies,
          existing_df, new_df, combined_df,
          scraping_in_progress, terms_list, sources, term_index, source_index,
          target_count, collected_data, total_collected,
          second_pass, max_retries, advanced, attempt, tried, failed, slept,
          response>>

\* the variables of the validators, pc apart
validator_vars == <<min_validation_score, heap, source_data, pos, unique_buyers,
                    seen_companies, seen_emails, seen_phones, validated_buyers,
                    valid_buyers, dv_result, validation_results, reply, mock>>

batch_vars == <<futures, validated_companies>>

merge_vars == <<existing_df, new_df, combined_df>>

app_vars == <<scraping_in_progress, terms_list, sources, term_index, source_index,
              target_count, collected_data, total_collected>>

request_vars == <<max_retries, advanced, attempt, tried, failed, slept, response>>

\* what the validators of one record never write
outside == <<deadline, batch_vars, merge_vars, app_vars>>

----------------------------------------------------------------------------
(* Bounds of the model. *)

MaxBatch == 3

----------------------------------------------------------------------------
(* Python str operations. *)

UpperCase == <<"A","B","C","D","E","F","G","H","I","J","K","L","M",
               "N","O","P","Q","R","S","T","U","V","W","X","Y","Z">>
LowerCase == <<"a","b","c","d","e","f","g","h","i","j","k","l","m",
               "n","o","p","q","r","s","t","u","v","w","x","y","z">>
DigitChars == {"0","1","2","3","4","5","6","7","8","9"}
SpaceChars == {" ", "\t", "\n", "\r"}

IsUpper(c) == \E k \in 1..26 : UpperCase[k] = c
IsLowerLetter(c) == \E k \in 1..26 : LowerCase[k] = c
IsAlpha(c) == IsUpper(c) \/ IsLowerLetter(c)
IsDigit(c) == c \in DigitChars
IsSpace(c) == c \in SpaceChars

LowerChar(c) == IF IsUpper(c) THEN LowerCase[CHOOSE k \in 1..26 : UpperCase[k] = c]
                ELSE c
\* str.lower()
Lower(s) == [k \in 1..Len(s) |-> LowerChar(s[k])]

\* str.strip()
Strip(s) ==
    LET inner == {k \in 1..Len(s) : ~IsSpace(s[k])}
    IN IF inner = {} THEN <<>>
       ELSE LET lo == CHOOSE k \in inner : \A m \in inner : k <= m
                hi == CHOOSE k \in inner : \A m \in inner : k >= m
            IN SubSeq(s, lo, hi)

\* re.sub(r'[^\d]', '', s)
DigitsOnly(s) == SelectSeq(s, IsDigit)

\* s[lo:] == prefix test used by str.startswith
StartsWith(s, p) == Len(s) >= Len(p) /\ SubSeq(s, 1, Len(p)) = p

\* p in s (substring test)
Contains(s, p) == \E k \in 1..(Len(s) - Len(p) + 1) : SubSeq(s, k, k + Len(p) - 1) = p

----------------------------------------------------------------------------
(* difflib.SequenceMatcher(None, a, b).ratio(): the matching blocks are    *)
(* found by taking the longest common block (the earliest in a, then the   *)
(* earliest in b, among the longest), then recursing to its left and to    *)
(* its right.  Ranges are [alo, ahi) and [blo, bhi), 1-based.              *)

Blocks(a, b, alo, ahi, blo, bhi) ==
    {t \in (alo..(ahi - 1)) \X (blo..(bhi - 1)) \X (1..(ahi - alo)) :
        /\ t[1] + t[3] <= ahi
        /\ t[2] + t[3] <= bhi
        /\ \A d \in 0..(t[3] - 1) : a[t[1] + d] = b[t[2] + d]}

LongestMatch(a, b, alo, ahi, blo, bhi) ==
    LET bs == Blocks(a, b, alo, ahi, blo, bhi)
    IN CHOOSE t \in bs :
          \A u \in bs :
             \/ t[3] > u[3]
             \/ t[3] = u[3] /\ t[1] < u[1]
             \/ t[3] = u[3] /\ t[1] = u[1] /\ t[2] <= u[2]

RECURSIVE MatchCount(_, _, _, _, _, _)
MatchCount(a, b, alo, ahi, blo, bhi) ==
    IF Blocks(a, b, alo, ahi, blo, bhi) = {} THEN 0
    ELSE LET m == LongestMatch(a, b, alo, ahi, blo, bhi)
         IN m[3] + MatchCount(a, b, alo, m[1], blo, m[2])
                 + MatchCount(a, b, m[1] + m[3], ahi, m[2] + m[3], bhi)

\* ratio() = 2.0 * matches / (len(a) + len(b)), and 1.0 when both are empty;
\* "similarity > 0.85" is 2 * matches * 100 > 85 * (len(a) + len(b)).
SimilarityAbove85(a, b) ==
    IF Len(a) + Len(b) = 0 THEN TRUE
    ELSE 200 * MatchCount(a, b, 1, Len(a) + 1, 1, Len(b) + 1) > 85 * (Len(a) + Len(b))

----------------------------------------------------------------------------
(* Dict values. *)

Absent == [t |-> "absent", s |-> <<>>]
None == [t |-> "none", s |-> <<>>]
Num == [t |-> "num", s |-> <<>>]
Str(s) == [t |-> "str", s |-> s]

\* buyer.get(key, '')
GetOrEmpty(v) == IF v.t = "absent" THEN Str(<<>>) ELSE v

\* bool(v) for a dict value read with a default of ''
Truthy(v) == v.t = "num" \/ (v.t = "str" /\ v.s # <<>>)

----------------------------------------------------------------------------
(* A buyer dict.  The input keys hold dict values; the keys written by     *)
(* validation are present when has_results holds (status_verified = ""     *)
(* and verification_reason = <<>> stand for a missing key).                *)

NewBuyer(n, e, p, w) ==
    [company_name |-> n, email |-> e, phone |-> p, website |-> w,
     has_results |-> FALSE,
     company_name_valid |-> FALSE, email_valid |-> FALSE,
     email_mx_valid |-> FALSE, email_disposable |-> FALSE,
     phone_valid |-> FALSE, website_valid |-> FALSE, website_active |-> FALSE,
     validation_score |-> 0, status_verified |-> "",
     verification_reason |-> <<>>]

----------------------------------------------------------------------------
(* AdvancedDataValidator.remove_duplicates_advanced *)

\* .lower().strip() of a non-str raises AttributeError, re.sub of a non-str
\* raises TypeError
DedupKeyRaises(buyer) ==
    \/ GetOrEmpty(buyer.company_name).t # "str"
    \/ GetOrEmpty(buyer.email).t # "str"
    \/ GetOrEmpty(buyer.phone).t # "str"

CompanyKey(buyer) == Strip(Lower(GetOrEmpty(buyer.company_name).s))
EmailKey(buyer) == Strip(Lower(GetOrEmpty(buyer.email).s))
PhoneKey(buyer) == DigitsOnly(GetOrEmpty(buyer.phone).s)

\* variant: the email branch of the chain is left out
IsDuplicateNoEmail(company_name, email, phone, seenC, seenE, seenP) ==
    IF company_name # <<>> /\ company_name \in seenC THEN TRUE
    ELSE IF phone # <<>> /\ Len(phone) >= 10 /\ phone \in seenP THEN TRUE
    ELSE \E seen_company \in seenC : SimilarityAbove85(company_name, seen_company)

\* variant: a record without a company name is skipped as a duplicate
IsDuplicateSkipsNameless(company_name, email, phone, seenC, seenE, seenP) ==
    IF company_name = <<>> THEN TRUE
    ELSE IF company_name \in seenC THEN TRUE
    ELSE IF email # <<>> /\ email \in seenE THEN TRUE
    ELSE IF phone # <<>> /\ Len(phone) >= 10 /\ phone \in seenP THEN TRUE
    ELSE \E seen_company \in seenC : SimilarityAbove85(company_name, seen_company)

\* variant: exact keys only, without the comparison of similar names
IsDuplicateExactOnly(company_name, email, phone, seenC, seenE, seenP) ==
    IF company_name # <<>> /\ company_name \in seenC THEN TRUE
    ELSE IF email # <<>> /\ email \in seenE THEN TRUE
    ELSE phone # <<>> /\ Len(phone) >= 10 /\ phone \in seenP

IsDuplicate(company_name, email, phone, seenC, seenE, seenP) ==
    IF company_name # <<>> /\ company_name \in seenC THEN TRUE
    ELSE IF email # <<>> /\ email \in seenE THEN TRUE
    ELSE IF phone # <<>> /\ Len(phone) >= 10 /\ phone \in seenP THEN TRUE
    ELSE \E seen_company \in seenC : SimilarityAbove85(company_name, seen_company)

\* variant: the keys of a record are inserted whether it is kept or not
DedupStepInsertsAlways ==
    /\ pc = "dedup"
    /\ pos < Len(source_data)
    /\ LET id == source_data[pos + 1]
           buyer == heap[id]
       IN /\ ~DedupKeyRaises(buyer)
          /\ LET company_name == CompanyKey(buyer)
                 email == EmailKey(buyer)
                 phone == PhoneKey(buyer)
             IN /\ unique_buyers' =
                      IF IsDuplicate(company_name, email, phone,
                                     seen_companies, seen_emails, seen_phones)
                      THEN unique_buyers
                      ELSE Append(unique_buyers, id)
                /\ seen_companies' = IF company_name # <<>>
                                     THEN seen_companies \cup {company_name}
                                     ELSE seen_companies
                /\ seen_emails' = IF email # <<>>
                                  THEN seen_emails \cup {email}
                                  ELSE seen_emails
                /\ seen_phones' = IF phone # <<>>
                                  THEN seen_phones \cup {phone}
                                  ELSE seen_phones
    /\ pos' = pos + 1
    /\ UNCHANGED <<outside, mock, pc, min_validation_score, heap, source_data,
                   validated_buyers, valid_buyers, dv_result, validation_results, reply,
                   second_pass, request_vars>>
\* variant: a duplicate empties the seen sets
DedupStepForgets ==
    /\ pc = "dedup"
    /\ pos < Len(source_data)
    /\ LET id == source_data[pos + 1]
           buyer == heap[id]
       IN /\ ~DedupKeyRaises(buyer)
          /\ LET company_name == CompanyKey(buyer)
                 email == EmailKey(buyer)
                 phone == PhoneKey(buyer)
             IN IF IsDuplicate(company_name, email, phone,
                               seen_companies, seen_emails, seen_phones)
                THEN /\ seen_companies' = {}
                     /\ seen_emails' = {}
                     /\ seen_phones' = {}
                     /\ UNCHANGED unique_buyers
                ELSE /\ unique_buyers' = Append(unique_buyers, id)
                     /\ seen_companies' = IF company_name # <<>>
                                          THEN seen_companies \cup {company_name}
                                          ELSE seen_companies
                     /\ seen_emails' = IF email # <<>>
                                       THEN seen_emails \cup {email}
                                       ELSE seen_emails
                     /\ seen_phones' = IF phone # <<>>
                                       THEN seen_phones \cup {phone}
                                       ELSE seen_phones
    /\ pos' = pos + 1
    /\ UNCHANGED <<outside, mock, pc, min_validation_score, heap, source_data,
                   validated_buyers, valid_buyers, dv_result, validation_results, reply,
                   second_pass, request_vars>>


\* one iteration of the for loop
DedupStep ==
    /\ pc = "dedup"
    /\ pos < Len(source_data)
    /\ LET id == source_data[pos + 1]
           buyer == heap[id]
       IN /\ ~DedupKeyRaises(buyer)
          /\ LET company_name == CompanyKey(buyer)
                 email == EmailKey(buyer)
                 phone == PhoneKey(buyer)
             IN IF IsDuplicate(company_name, email, phone,
                               seen_companies, seen_emails, seen_phones)
                THEN UNCHANGED <<outside, mock, unique_buyers, seen_companies, seen_emails, seen_phones,
                   second_pass, request_vars>>
                ELSE /\ unique_buyers' = Append(unique_buyers, id)
                     /\ seen_companies' = IF company_name # <<>>
                                          THEN seen_companies \cup {company_name}
                                          ELSE seen_companies
                     /\ seen_emails' = IF email # <<>>
                                       THEN seen_emails \cup {email}
                                       ELSE seen_emails
                     /\ seen_phones' = IF phone # <<>>
                                       THEN seen_phones \cup {phone}
                                       ELSE seen_phones
    /\ pos' = pos + 1
    /\ UNCHANGED <<outside, mock, pc, min_validation_score, heap, source_data,
                   validated_buyers, valid_buyers, dv_result, validation_results, reply,
                   second_pass, request_vars>>

\* an iteration whose key computation raises: the exception leaves
\* remove_duplicates_advanced and is caught in start_scraping (app.py:280),
\* which goes on to the next source without this batch
DedupRaise ==
    /\ pc = "dedup"
    /\ pos < Len(source_data)
    /\ DedupKeyRaises(heap[source_data[pos + 1]])
    /\ pc' = "raised"
    /\ pos' = 0
    /\ unique_buyers' = <<>>
    /\ seen_companies' = {}
    /\ seen_emails' = {}
    /\ seen_phones' = {}
    /\ UNCHANGED <<outside, mock, min_validation_score, heap, source_data,
                   validated_buyers, valid_buyers, dv_result, validation_results, reply,
                   second_pass, request_vars>>

\* variant: the loop is left after its first iteration
DedupReturnEarly ==
    /\ pc = "dedup"
    /\ pos >= 1
    /\ pc' = "validate"
    /\ UNCHANGED <<outside, mock, min_validation_score, heap, source_data, pos, unique_buyers,
                   seen_companies, seen_emails, seen_phones,
                   validated_buyers, valid_buyers, dv_result, validation_results, reply,
                   second_pass, request_vars>>
\* remove_duplicates_advanced is called on the list it has returned
DedupAgain ==
    /\ pc = "validate"
    /\ ~second_pass
    /\ second_pass' = TRUE
    /\ source_data' = unique_buyers
    /\ pos' = 0
    /\ unique_buyers' = <<>>
    /\ seen_companies' = {}
    /\ seen_emails' = {}
    /\ seen_phones' = {}
    /\ pc' = "dedup"
    /\ UNCHANGED <<outside, mock, min_validation_score, heap, validated_buyers,
                   valid_buyers, dv_result, validation_results, reply,
                   request_vars>>


\* the loop is over: return unique_buyers (an empty input list is returned
\* as it is, app.py:247 hands over non-empty lists only)
DedupReturn ==
    /\ pc = "dedup"
    /\ pos = Len(source_data)
    /\ pc' = "validate"
    /\ UNCHANGED <<outside, mock, min_validation_score, heap, source_data, pos, unique_buyers,
                   seen_companies, seen_emails, seen_phones,
                   validated_buyers, valid_buyers, dv_result, validation_results, reply,
                   second_pass, request_vars>>

----------------------------------------------------------------------------
(* AdvancedDataValidator: the tables of __init__ *)

disposable_domains ==
    {<<"1","0","m","i","n","u","t","e","m","a","i","l",".","c","o","m">>,
     <<"t","e","m","p","m","a","i","l",".","o","r","g">>,
     <<"g","u","e","r","r","i","l","l","a","m","a","i","l",".","c","o","m">>,
     <<"m","a","i","l","i","n","a","t","o","r",".","c","o","m">>,
     <<"y","o","p","m","a","i","l",".","c","o","m">>,
     <<"t","e","m","p","-","m","a","i","l",".","o","r","g">>,
     <<"t","h","r","o","w","a","w","a","y",".","e","m","a","i","l">>,
     <<"m","a","i","l","d","r","o","p",".","c","c">>,
     <<"g","e","t","n","a","d","a",".","c","o","m">>,
     <<"t","e","m","p","a","i","l",".","c","o","m">>,
     <<"s","h","a","r","k","l","a","s","e","r","s",".","c","o","m">>,
     <<"g","r","r",".","l","a">>,
     <<"f","a","k","e","i","n","b","o","x",".","c","o","m">>,
     <<"s","p","a","m","g","o","u","r","m","e","t",".","c","o","m">>,
     <<"d","i","s","p","o","s","t","a","b","l","e",".","c","o","m">>,
     <<"m","a","i","l","n","e","s","i","a",".","c","o","m">>}

\* the patterns of the form r'word\s*word'
spam_word_patterns ==
    {<<<<"t","e","s","t">>, <<"c","o","m","p","a","n","y">>>>,
     <<<<"e","x","a","m","p","l","e">>, <<"c","o","r","p">>>>,
     <<<<"s","a","m","p","l","e">>, <<"l","t","d">>>>,
     <<<<"d","u","m","m","y">>, <<"b","u","s","i","n","e","s","s">>>>,
     <<<<"f","a","k","e">>, <<"e","n","t","e","r","p","r","i","s","e">>>>,
     <<<<"l","o","r","e","m">>, <<"i","p","s","u","m">>>>,
     <<<<"j","o","h","n">>, <<"d","o","e">>>>,
     <<<<"c","o","m","p","a","n","y">>, <<"n","a","m","e">>>>,
     <<<<"b","u","s","i","n","e","s","s">>, <<"h","e","r","e">>>>,
     <<<<"e","n","t","e","r">>, <<"n","a","m","e">>>>,
     <<<<"y","o","u","r">>, <<"c","o","m","p","a","n","y">>>>}

\* r'xxx+' and r'aaa+'
spam_run_patterns == {<<"x","x","x">>, <<"a","a","a">>}

valid_indian_prefixes ==
    {<<a, b>> : a \in {"7", "8", "9"}, b \in DigitChars}

----------------------------------------------------------------------------
(* AdvancedDataValidator._validate_company_name *)

\* re.search(r'w1\s*w2', s)
SearchWords(s, w) ==
    \E k \in 1..Len(s), n \in 0..Len(s) :
        /\ k + Len(w[1]) + n + Len(w[2]) - 1 <= Len(s)
        /\ SubSeq(s, k, k + Len(w[1]) - 1) = w[1]
        /\ \A m \in (k + Len(w[1]))..(k + Len(w[1]) + n - 1) : IsSpace(s[m])
        /\ SubSeq(s, k + Len(w[1]) + n, k + Len(w[1]) + n + Len(w[2]) - 1) = w[2]

MatchesSpamPattern(s) ==
    \/ \E w \in spam_word_patterns : SearchWords(s, w)
    \/ \E r \in spam_run_patterns : Contains(s, r)

\* re.search(r'(.)\1{4,}', s)
HasRepeatedChars(s) ==
    \E k \in 1..(Len(s) - 4) :
        /\ s[k] # "\n"
        /\ \A d \in 1..4 : s[k + d] = s[k]

\* a truthy value that is no str has no strip(): AttributeError
CompanyNameRaises(v) == v.t = "num"

ValidateCompanyName(v) ==
    IF ~Truthy(v) \/ Len(Strip(v.s)) < 3 THEN FALSE
    ELSE IF MatchesSpamPattern(Strip(Lower(v.s))) THEN FALSE
    ELSE IF ~(\E k \in 1..Len(v.s) : IsAlpha(v.s[k])) THEN FALSE
    ELSE IF HasRepeatedChars(v.s) THEN FALSE
    ELSE TRUE

----------------------------------------------------------------------------
(* AdvancedDataValidator._validate_email_complete *)

MxReplies == {"records", "empty", "NXDOMAIN", "timeout"}

IsLocalChar(c) == IsAlpha(c) \/ IsDigit(c) \/ c \in {".", "_", "%", "+", "-"}
IsDomainChar(c) == IsAlpha(c) \/ IsDigit(c) \/ c \in {".", "-"}

\* ^[a-zA-Z0-9._%+-]+@[a-zA-Z0-9.-]+\.[a-zA-Z]{2,} up to the end of s
EmailPatternToEnd(s) ==
    \E at \in 2..Len(s), dot \in 1..Len(s) :
        /\ s[at] = "@"
        /\ \A k \in 1..(at - 1) : IsLocalChar(s[k])
        /\ dot >= at + 2
        /\ s[dot] = "."
        /\ \A k \in (at + 1)..(dot - 1) : IsDomainChar(s[k])
        /\ Len(s) - dot >= 2
        /\ \A k \in (dot + 1)..Len(s) : IsAlpha(s[k])

\* re.match(email_pattern, email): $ also matches before a final newline
EmailPatternMatches(s) ==
    \/ EmailPatternToEnd(s)
    \/ Len(s) > 0 /\ s[Len(s)] = "\n" /\ EmailPatternToEnd(SubSeq(s, 1, Len(s) - 1))

\* email.split('@')[1].lower(), for an email with an '@'
EmailDomain(s) ==
    LET ats == {k \in 1..Len(s) : s[k] = "@"}
        first == CHOOSE k \in ats : \A m \in ats : k <= m
        later == {k \in ats : k > first}
        stop == IF later = {} THEN Len(s) + 1
                ELSE CHOOSE k \in later : \A m \in later : k <= m
    IN Lower(SubSeq(s, first + 1, stop - 1))

\* '@' not in email, for a truthy value that is no str: TypeError
EmailRaises(v) == v.t = "num"

EmailWellFormed(v) ==
    /\ Truthy(v)
    /\ \E k \in 1..Len(v.s) : v.s[k] = "@"
    /\ EmailPatternMatches(v.s)

\* does the call reach dns.resolver.resolve?
EmailAsksMx(v) == EmailWellFormed(v) /\ EmailDomain(v.s) \notin disposable_domains

\* variant: a validator that remembers the domains it has looked up and
\* takes a remembered domain as active without reading the answer
ValidateEmailCompleteRemembers(v, mx) ==
    IF ~EmailWellFormed(v)
    THEN [valid |-> FALSE, mx_valid |-> FALSE, disposable |-> FALSE]
    ELSE IF EmailDomain(v.s) \in disposable_domains
    THEN [valid |-> FALSE, mx_valid |-> FALSE, disposable |-> TRUE]
    ELSE IF mx = "records" \/ validated_buyers # <<>>
    THEN [valid |-> TRUE, mx_valid |-> TRUE, disposable |-> FALSE]
    ELSE [valid |-> FALSE, mx_valid |-> FALSE, disposable |-> FALSE]

\* variant: an email of valid format that is not disposable is valid
\* whatever the MX lookup gives
ValidateEmailCompleteFormatOnly(v, mx) ==
    IF ~EmailWellFormed(v)
    THEN [valid |-> FALSE, mx_valid |-> FALSE, disposable |-> FALSE]
    ELSE IF EmailDomain(v.s) \in disposable_domains
    THEN [valid |-> FALSE, mx_valid |-> FALSE, disposable |-> TRUE]
    ELSE [valid |-> TRUE, mx_valid |-> mx = "records", disposable |-> FALSE]

\* the result dict of _validate_email_complete; mx is the resolver's reply
ValidateEmailComplete(v, mx) ==
    IF ~EmailWellFormed(v)
    THEN [valid |-> FALSE, mx_valid |-> FALSE, disposable |-> FALSE]
    ELSE IF EmailDomain(v.s) \in disposable_domains
    THEN [valid |-> FALSE, mx_valid |-> FALSE, disposable |-> TRUE]
    ELSE IF mx = "records"
    THEN [valid |-> TRUE, mx_valid |-> TRUE, disposable |-> FALSE]
    ELSE [valid |-> FALSE, mx_valid |-> FALSE, disposable |-> FALSE]

----------------------------------------------------------------------------
(* AdvancedDataValidator._validate_phone_complete *)

\* how many leading digits (country code, trunk prefix) phonenumbers may
\* strip from the digits it is given
MaxStripped == 2

\* re.sub(r'[^\d+]', '', phone)
CleanPhone(s) == SelectSeq(s, LAMBDA c : IsDigit(c) \/ c = "+")

fake_phones == {<<"0","0","0","0","0","0","0","0","0","0">>,
                <<"1","1","1","1","1","1","1","1","1","1">>,
                <<"1","2","3","4","5","6","7","8","9","0">>}

\* re.sub of a truthy value that is no str: TypeError
PhoneRaises(v) == v.t = "num"

IsFakePhone(cleaned) == Len(cleaned) < 10 \/ cleaned \in fake_phones

\* variant: the length and fake-number check of line 181 is left out
PhoneAsksLibAlways(v) == Truthy(v)

\* does the call reach phonenumbers.parse?
PhoneAsksLib(v) == Truthy(v) /\ ~IsFakePhone(CleanPhone(v.s))

CallingCode(country) ==
    CASE country = "IN" -> <<"9","1">>
      [] country = "US" -> <<"1">>
      [] OTHER -> <<"4","4">>

\* What phonenumbers answers over the region hints 'IN', 'US', 'GB', None:
\* no hint gives a valid number, or the first hint that does gives the
\* region of the number and its E.164 format: '+', the calling code and the
\* digits left after the library stripped the calling code and the trunk
\* prefix.
LibReplies(cleaned) ==
    {[valid |-> FALSE, country |-> "", format |-> <<>>]} \cup
    {[valid |-> TRUE, country |-> c,
      format |-> <<"+">> \o CallingCode(c)
                 \o SubSeq(DigitsOnly(cleaned), k + 1, Len(DigitsOnly(cleaned)))] :
        c \in {"IN", "US", "GB"}, k \in 0..MaxStripped}

\* the region hints in the order of the loop; "" is the hint None
RegionHints == <<"IN", "US", "GB", "">>

\* What phonenumbers answers to one hint: parse raises NumberParseException,
\* or is_valid_number is False, or the number is valid with its region and
\* its E.164 format.
HintAnswers(cleaned) ==
    {[raises |-> TRUE, valid |-> FALSE, country |-> "", format |-> <<>>],
     [raises |-> FALSE, valid |-> FALSE, country |-> "", format |-> <<>>]} \cup
    {[raises |-> FALSE, valid |-> TRUE, country |-> c,
      format |-> <<"+">> \o CallingCode(c)
                 \o SubSeq(DigitsOnly(cleaned), k + 1, Len(DigitsOnly(cleaned)))] :
        c \in {"IN", "US"}, k \in {0, MaxStripped}}

\* variant: the hints are tried from the last to the first
RECURSIVE TryHintsBackwards(_, _)
TryHintsBackwards(answers, h) ==
    LET g == Len(RegionHints) + 1 - h
    IN IF h > Len(RegionHints)
       THEN [valid |-> FALSE, country |-> "", format |-> <<>>]
       ELSE IF answers[g].raises \/ ~answers[g].valid
       THEN TryHintsBackwards(answers, h + 1)
       ELSE [valid |-> TRUE, country |-> answers[g].country,
             format |-> answers[g].format]

\* the for loop from the hint at index h on: the first hint that gives a
\* valid number ends it
RECURSIVE TryHints(_, _)
TryHints(answers, h) ==
    IF h > Len(RegionHints)
    THEN [valid |-> FALSE, country |-> "", format |-> <<>>]
    ELSE IF answers[h].raises \/ ~answers[h].valid
    THEN TryHints(answers, h + 1)
    ELSE [valid |-> TRUE, country |-> answers[h].country,
          format |-> answers[h].format]

\* the 'valid' of the result dict of _validate_phone_complete
ValidatePhoneComplete(v, lib) ==
    IF ~PhoneAsksLib(v) THEN FALSE
    ELSE IF ~lib.valid THEN FALSE
    ELSE IF lib.country = "IN"
    THEN LET mobile_part == SubSeq(lib.format, 4, Len(lib.format))
         IN Len(mobile_part) = 10 /\ SubSeq(mobile_part, 1, 2) \in valid_indian_prefixes
    ELSE TRUE

----------------------------------------------------------------------------
(* AdvancedDataValidator._validate_website_complete *)

Http == <<"h","t","t","p",":","/","/">>
Https == <<"h","t","t","p","s",":","/","/">>

HttpReplies ==
    {[kind |-> "status", status |-> c] : c \in {199, 200, 399, 400}}
    \cup {[kind |-> k, status |-> 0] : k \in {"Timeout", "ConnectionError", "Exception"}}

\* website.startswith of a truthy value that is no str: AttributeError
WebsiteRaises(v) == v.t = "num"

WithScheme(s) == IF StartsWith(s, Http) \/ StartsWith(s, Https) THEN s ELSE Https \o s

\* urlparse(website).netloc for a website that starts with http:// or https://
Netloc(url) ==
    LET start == IF StartsWith(url, Https) THEN Len(Https) + 1 ELSE Len(Http) + 1
        ends == {k \in start..Len(url) : url[k] \in {"/", "?", "#"}}
        stop == IF ends = {} THEN Len(url) + 1
                ELSE CHOOSE k \in ends : \A m \in ends : k <= m
    IN SubSeq(url, start, stop - 1)

\* urlparse raises ValueError for unbalanced brackets in the netloc
UrlParseFails(url) ==
    LET n == Netloc(url)
    IN (\E k \in 1..Len(n) : n[k] = "[") # (\E k \in 1..Len(n) : n[k] = "]")

\* does the call reach requests.get?
WebsiteAsksHttp(v) ==
    /\ Truthy(v)
    /\ ~UrlParseFails(WithScheme(v.s))
    /\ Netloc(WithScheme(v.s)) # <<>>

\* the result dict of _validate_website_complete; http is the reply to the GET
ValidateWebsiteComplete(v, http) ==
    IF WebsiteAsksHttp(v) /\ http.kind = "status"
       /\ 200 <= http.status /\ http.status < 400
    THEN [valid |-> TRUE, active |-> TRUE]
    ELSE [valid |-> FALSE, active |-> FALSE]

----------------------------------------------------------------------------
(* AdvancedDataValidator._calculate_validation_score and                   *)
(* _get_verification_reason                                                *)

Min(a, b) == IF a <= b THEN a ELSE b

CalculateValidationScore(r) ==
    Min((IF r.company_name_valid THEN 20 ELSE 0)
        + (IF r.email_valid THEN 20 + (IF r.email_mx_valid THEN 10 ELSE 0) ELSE 0)
        + (IF r.phone_valid THEN 25 ELSE 0)
        + (IF r.website_valid THEN 15 + (IF r.website_active THEN 10 ELSE 0) ELSE 0),
        100)

GetVerificationReason(r) ==
    IF r.status_verified = "VALID" THEN <<"All validations passed">>
    ELSE LET issues ==
                (IF ~r.company_name_valid THEN <<"Invalid company name">> ELSE <<>>)
             \o (IF ~r.email_valid THEN <<"Invalid email">>
                 ELSE IF r.email_disposable THEN <<"Disposable email">>
                 ELSE IF ~r.email_mx_valid THEN <<"Email domain not active">>
                 ELSE <<>>)
             \o (IF ~r.phone_valid THEN <<"Invalid phone number">> ELSE <<>>)
             \o (IF ~r.website_valid THEN <<"Invalid website">>
                 ELSE IF ~r.website_active THEN <<"Website not active">>
                 ELSE <<>>)
         IN IF issues # <<>> THEN issues ELSE <<"Low validation score">>

----------------------------------------------------------------------------
(* AdvancedDataValidator.validate_complete_buyer_data and                  *)
(* validate_batch_data.  A call runs the four field validators in order    *)
(* and then scores the record; the model takes one step per validator, the *)
(* points where the call waits for the resolver, the library or the web    *)
(* server.  validation_results is the local dict of the call in progress   *)
(* and step the number of validators that have returned.                   *)

NoResults ==
    [step |-> 0,
     company_name_valid |-> FALSE, email_valid |-> FALSE,
     email_mx_valid |-> FALSE, email_disposable |-> FALSE,
     phone_valid |-> FALSE, website_valid |-> FALSE, website_active |-> FALSE]

\* asked: the lookups or requests the last field validator has issued
NoReply == [service |-> "", asked |-> 0, mx |-> "",
            lib |-> [valid |-> FALSE, country |-> "", format |-> <<>>],
            http |-> [kind |-> "", status |-> 0]]

\* the deadline has not passed
NoDeadline == [passed |-> FALSE, completed |-> 0]

\* the state of what lies outside the validators before any of it has run
\* validate_batch_data of DataValidator is not running
NoBatch ==
    /\ futures = <<>>
    /\ validated_companies = <<>>

\* merge_dataframes is not running
NoMerge ==
    /\ existing_df = <<>>
    /\ new_df = <<>>
    /\ combined_df = <<>>

\* start_scraping is not running
NoApp ==
    /\ scraping_in_progress = FALSE
    /\ terms_list = <<>>
    /\ sources = <<>>
    /\ term_index = 0
    /\ source_index = 0
    /\ target_count = 0
    /\ collected_data = <<>>
    /\ total_collected = 0

\* _make_request is not running
NoRequest ==
    /\ max_retries = 0
    /\ advanced = FALSE
    /\ attempt = 0
    /\ tried = 0
    /\ failed = 0
    /\ slept = <<>>
    /\ response = "not returned"

InitOutside ==
    /\ deadline = NoDeadline
    /\ NoBatch
    /\ NoMerge
    /\ second_pass = FALSE
    /\ NoRequest
    /\ NoApp

\* no mock: the resolver, the library and the web server answer as they like
NoMock == [on |-> FALSE, mx |-> "", lib |-> <<>>, http |-> NoReply.http]

\* what dns.resolver.resolve may answer in this run
MxAnswers == IF mock.on THEN {mock.mx} ELSE MxReplies

\* what the loop over the region hints may end with in this run
LibAnswers(cleaned) == IF mock.on THEN {TryHints(mock.lib, 1)} ELSE LibReplies(cleaned)

\* what requests.get may answer in this run
HttpAnswers == IF mock.on THEN {mock.http} ELSE HttpReplies

\* the record validate_batch_data is at
CurrentId == unique_buyers[Len(validated_buyers) + 1]
CurrentBuyer == heap[CurrentId]

Validating(k) ==
    /\ pc = "validate"
    /\ Len(validated_buyers) < Len(unique_buyers)
    /\ validation_results.step = k

\* variant: the score floor is the lowest tier of the app, 60
IsValidFloor60(company_valid, email_valid, email_disposable, phone_valid, validation_score) ==
    /\ company_valid
    /\ email_valid
    /\ ~email_disposable
    /\ phone_valid
    /\ validation_score >= 60

\* step 6: the final status (the score floor is the literal 80)
IsValid(company_valid, email_valid, email_disposable, phone_valid, validation_score) ==
    /\ company_valid
    /\ email_valid
    /\ ~email_disposable
    /\ phone_valid
    /\ validation_score >= 80

\* variant: the reason is computed before the status is stored
ValidatedBuyerReasonFirst(buyer, results) ==
    LET verdicts == [buyer EXCEPT !.has_results = TRUE,
                                  !.company_name_valid = results.company_name_valid,
                                  !.email_valid = results.email_valid,
                                  !.email_mx_valid = results.email_mx_valid,
                                  !.email_disposable = results.email_disposable,
                                  !.phone_valid = results.phone_valid,
                                  !.website_valid = results.website_valid,
                                  !.website_active = results.website_active]
        validation_score == CalculateValidationScore(verdicts)
        reasoned == [verdicts EXCEPT
                       !.validation_score = validation_score,
                       !.verification_reason = GetVerificationReason(verdicts)]
    IN [reasoned EXCEPT
          !.status_verified =
              IF IsValid(results.company_name_valid, results.email_valid,
                         results.email_disposable, results.phone_valid,
                         validation_score)
              THEN "VALID" ELSE "INVALID"]

\* steps 5 and 6 and validated_buyer.update: a copy of buyer_data with the results
ValidatedBuyer(buyer, results) ==
    LET verdicts == [buyer EXCEPT !.has_results = TRUE,
                                  !.company_name_valid = results.company_name_valid,
                                  !.email_valid = results.email_valid,
                                  !.email_mx_valid = results.email_mx_valid,
                                  !.email_disposable = results.email_disposable,
                                  !.phone_valid = results.phone_valid,
                                  !.website_valid = results.website_valid,
                                  !.website_active = results.website_active]
        validation_score == CalculateValidationScore(verdicts)
        scored == [verdicts EXCEPT
                     !.validation_score = validation_score,
                     !.status_verified =
                         IF IsValid(results.company_name_valid, results.email_valid,
                                    results.email_disposable, results.phone_valid,
                                    validation_score)
                         THEN "VALID" ELSE "INVALID"]
    IN [scored EXCEPT !.verification_reason = GetVerificationReason(scored)]

\* the except block: buyer_data itself, marked
ErrorBuyer(buyer) ==
    [buyer EXCEPT !.status_verified = "ERROR",
                  !.verification_reason = <<"Validation error">>]

\* does the validator that runs after `k` validators have returned raise?
FieldRaises(buyer, k) ==
    CASE k = 0 -> CompanyNameRaises(GetOrEmpty(buyer.company_name))
      [] k = 1 -> EmailRaises(GetOrEmpty(buyer.email))
      [] k = 2 -> PhoneRaises(GetOrEmpty(buyer.phone))
      [] k = 3 -> WebsiteRaises(GetOrEmpty(buyer.website))
      [] OTHER -> FALSE

ValidateUnchanged ==
    UNCHANGED <<outside, mock, pc, min_validation_score, heap, source_data, pos, unique_buyers,
                seen_companies, seen_emails, seen_phones, validated_buyers,
                valid_buyers, dv_result,
                   second_pass, request_vars>>

\* 1. company name
ValidateName ==
    /\ Validating(0)
    /\ ~FieldRaises(CurrentBuyer, 0)
    /\ validation_results' =
          [validation_results EXCEPT
             !.step = 1,
             !.company_name_valid =
                 ValidateCompanyName(GetOrEmpty(CurrentBuyer.company_name))]
    /\ reply' = NoReply
    /\ ValidateUnchanged

\* 2. email, with the MX lookup
ValidateEmail ==
    /\ Validating(1)
    /\ ~FieldRaises(CurrentBuyer, 1)
    /\ LET email == GetOrEmpty(CurrentBuyer.email)
       IN \E mx \in (IF EmailAsksMx(email) THEN MxAnswers ELSE {""}) :
            LET email_result == ValidateEmailComplete(email, mx)
            IN /\ validation_results' =
                     [validation_results EXCEPT
                        !.step = 2,
                        !.email_valid = email_result.valid,
                        !.email_mx_valid = email_result.mx_valid,
                        !.email_disposable = email_result.disposable]
               /\ reply' = IF mx # ""
                           THEN [NoReply EXCEPT !.service = "mx", !.asked = 1, !.mx = mx]
                           ELSE NoReply
    /\ ValidateUnchanged

\* 3. phone, with phonenumbers
ValidatePhone ==
    /\ Validating(2)
    /\ ~FieldRaises(CurrentBuyer, 2)
    /\ LET phone == GetOrEmpty(CurrentBuyer.phone)
       IN \E lib \in (IF PhoneAsksLib(phone) THEN LibAnswers(CleanPhone(phone.s))
                      ELSE {NoReply.lib}) :
            /\ validation_results' =
                  [validation_results EXCEPT
                     !.step = 3,
                     !.phone_valid = ValidatePhoneComplete(phone, lib)]
            /\ reply' = IF PhoneAsksLib(phone)
                        THEN [NoReply EXCEPT !.service = "lib", !.lib = lib]
                        ELSE NoReply
    /\ ValidateUnchanged

\* 4. website, with the HTTP GET
ValidateWebsite ==
    /\ Validating(3)
    /\ ~FieldRaises(CurrentBuyer, 3)
    /\ LET website == GetOrEmpty(CurrentBuyer.website)
       IN \E http \in (IF WebsiteAsksHttp(website) THEN HttpAnswers
                       ELSE {NoReply.http}) :
            LET website_result == ValidateWebsiteComplete(website, http)
            IN /\ validation_results' =
                     [validation_results EXCEPT
                        !.step = 4,
                        !.website_valid = website_result.valid,
                        !.website_active = website_result.active]
               /\ reply' = IF WebsiteAsksHttp(website)
                           THEN [NoReply EXCEPT !.service = "http", !.asked = 1, !.http = http]
                           ELSE NoReply
    /\ ValidateUnchanged

\* 5., 6. and the return: the copy goes to a new object, which
\* validate_batch_data appends
ValidateFinish ==
    /\ Validating(4)
    /\ heap' = Append(heap, ValidatedBuyer(CurrentBuyer, validation_results))
    /\ validated_buyers' = Append(validated_buyers, Len(heap) + 1)
    /\ validation_results' = NoResults
    /\ reply' = NoReply
    /\ UNCHANGED <<outside, mock, pc, min_validation_score, source_data, pos, unique_buyers,
                   seen_companies, seen_emails, seen_phones, valid_buyers,
                   dv_result,
                   second_pass, request_vars>>

\* variant: without the try block the exception of a field validator
\* leaves validate_batch_data
ValidateRaiseAborts ==
    /\ pc = "validate"
    /\ Len(validated_buyers) < Len(unique_buyers)
    /\ FieldRaises(CurrentBuyer, validation_results.step)
    /\ pc' = "raised"
    /\ validation_results' = NoResults
    /\ reply' = NoReply
    /\ UNCHANGED <<outside, mock, min_validation_score, heap, source_data, pos, unique_buyers,
                   seen_companies, seen_emails, seen_phones, validated_buyers,
                   valid_buyers, dv_result,
                   second_pass, request_vars>>

\* a field validator raises: the except block marks buyer_data itself and
\* returns it, and validate_batch_data appends it
ValidateRaise ==
    /\ pc = "validate"
    /\ Len(validated_buyers) < Len(unique_buyers)
    /\ FieldRaises(CurrentBuyer, validation_results.step)
    /\ heap' = [heap EXCEPT ![CurrentId] = ErrorBuyer(CurrentBuyer)]
    /\ validated_buyers' = Append(validated_buyers, CurrentId)
    /\ validation_results' = NoResults
    /\ reply' = NoReply
    /\ UNCHANGED <<outside, mock, pc, min_validation_score, source_data, pos, unique_buyers,
                   seen_companies, seen_emails, seen_phones, valid_buyers,
                   dv_result,
                   second_pass, request_vars>>

\* validate_batch_data returns validated_buyers
ValidateReturn ==
    /\ pc = "validate"
    /\ Len(validated_buyers) = Len(unique_buyers)
    /\ pc' = "filter"
    /\ UNCHANGED <<outside, mock, min_validation_score, heap, source_data, pos, unique_buyers,
                   seen_companies, seen_emails, seen_phones, validated_buyers,
                   valid_buyers, dv_result, validation_results, reply,
                   second_pass, request_vars>>

----------------------------------------------------------------------------
(* AdvancedDataValidator.filter_valid_buyers_only *)

IsValidBuyer(id) == heap[id].status_verified = "VALID"
\* variant: the filter lets every validated record through
FilterEveryBuyer(buyers_list) == buyers_list


FilterValidBuyersOnly(buyers_list) == SelectSeq(buyers_list, IsValidBuyer)

FilterValid ==
    /\ pc = "filter"
    /\ valid_buyers' = FilterValidBuyersOnly(validated_buyers)
    /\ pc' = "done"
    /\ UNCHANGED <<outside, mock, min_validation_score, heap, source_data, pos, unique_buyers,
                   seen_companies, seen_emails, seen_phones, validated_buyers,
                   dv_result, validation_results, reply,
                   second_pass, request_vars>>

----------------------------------------------------------------------------
(* DataValidator.validate_company_data.  The verdicts of its field         *)
(* validators, of the consistency check and of the enrichment are inputs;  *)
(* raised_at is the step of the try block that raises (0: none does).      *)

EnrichmentConfidence(found) ==
      (IF "industry" \in found THEN 5 ELSE 0)
    + (IF "company_size" \in found THEN 3 ELSE 0)
    + (IF "country" \in found THEN 2 ELSE 0)
    + (IF "business_type" \in found THEN 3 ELSE 0)

\* variant: the score is stored without the cap of line 98
ValidateCompanyDataUncapped(email_ok, phone_ok, website_ok, consistent, confidence, raised_at) ==
    LET validation_score ==
              (IF email_ok THEN 30 ELSE 0)
            + (IF phone_ok THEN 25 ELSE 0)
            + (IF website_ok THEN 20 ELSE 0)
            + (IF consistent THEN 15 ELSE 0)
            + confidence
        reached(k) == raised_at = 0 \/ k < raised_at
    IN [email_valid |-> reached(1) /\ email_ok,
        phone_valid |-> reached(2) /\ phone_ok,
        website_valid |-> reached(3) /\ website_ok,
        data_consistent |-> reached(4) /\ consistent,
        validation_score |-> IF raised_at = 0 THEN validation_score ELSE 0,
        status_verified |-> raised_at = 0 /\ validation_score >= 70,
        validation_error |-> raised_at # 0]

ValidateCompanyData(email_ok, phone_ok, website_ok, consistent, confidence, raised_at) ==
    LET validation_score ==
              (IF email_ok THEN 30 ELSE 0)
            + (IF phone_ok THEN 25 ELSE 0)
            + (IF website_ok THEN 20 ELSE 0)
            + (IF consistent THEN 15 ELSE 0)
            + confidence
        reached(k) == raised_at = 0 \/ k < raised_at
    IN [email_valid |-> reached(1) /\ email_ok,
        phone_valid |-> reached(2) /\ phone_ok,
        website_valid |-> reached(3) /\ website_ok,
        data_consistent |-> reached(4) /\ consistent,
        validation_score |-> IF raised_at = 0 THEN Min(validation_score, 100) ELSE 0,
        status_verified |-> raised_at = 0 /\ validation_score >= 70,
        validation_error |-> raised_at # 0]

\* DataValidator._validate_website_domain: domain_ok is the verdict of
\* validators.domain, first the reply to the GET of the URL, second the
\* reply to the GET of the http:// URL that follows a RequestException of
\* the first.  asked counts the GETs.
RedirectStatus == {301, 302, 303, 307, 308}

IsRequestException(http) == http.kind \in {"Timeout", "ConnectionError"}

\* does the call reach the first requests.get?
WebsiteDomainAsksHttp(v, domain_ok) ==
    /\ v.t = "str"
    /\ v.s # <<>>
    /\ ~UrlParseFails(WithScheme(v.s))
    /\ domain_ok

\* does the call go on to the second requests.get?
WebsiteDomainAsksAgain(v, domain_ok, first) ==
    /\ WebsiteDomainAsksHttp(v, domain_ok)
    /\ IsRequestException(first)
    /\ StartsWith(WithScheme(v.s), Https)

ValidateWebsiteDomain(v, domain_ok, first, second) ==
    IF ~WebsiteDomainAsksHttp(v, domain_ok)
    THEN [is_valid |-> FALSE, asked |-> 0]
    ELSE IF first.kind = "status"
    THEN [is_valid |-> first.status = 200 \/ first.status \in RedirectStatus,
          asked |-> 1]
    ELSE IF WebsiteDomainAsksAgain(v, domain_ok, first)
    THEN [is_valid |-> second.kind = "status" /\ second.status = 200,
          asked |-> 2]
    ELSE [is_valid |-> FALSE, asked |-> 1]

\* validate_company_data on the record: the email and phone validators
\* return is_valid = False for a value that is empty or no str, the website
\* validator runs when no earlier step has raised
DVValidate ==
    /\ pc = "dv"
    /\ LET company == heap[source_data[1]]
           website == GetOrEmpty(company.website)
           IsText(v) == v.t = "str" /\ v.s # <<>>
       IN \E domain_ok \in (IF IsText(website) THEN BOOLEAN ELSE {FALSE}) :
          \E first \in (IF WebsiteDomainAsksHttp(website, domain_ok)
                        THEN HttpAnswers ELSE {NoReply.http}) :
          \E second \in (IF WebsiteDomainAsksAgain(website, domain_ok, first)
                         THEN HttpAnswers ELSE {NoReply.http}) :
          \E site \in {ValidateWebsiteDomain(website, domain_ok, first, second)} :
          \E email_ok \in (IF IsText(GetOrEmpty(company.email)) THEN BOOLEAN ELSE {FALSE}) :
          \E phone_ok \in (IF IsText(GetOrEmpty(company.phone)) THEN BOOLEAN ELSE {FALSE}) :
          \E consistent \in BOOLEAN,
             confidence \in {EnrichmentConfidence(found) :
                               found \in SUBSET {"industry", "company_size",
                                                 "country", "business_type"}},
             raised_at \in 0..5 :
            LET runs == raised_at = 0 \/ raised_at > 3
            IN /\ dv_result' = <<ValidateCompanyData(email_ok, phone_ok,
                                                     site.is_valid, consistent,
                                                     confidence, raised_at)>>
               /\ reply' = IF ~runs \/ site.asked = 0 THEN NoReply
                           ELSE [NoReply EXCEPT
                                   !.service = "http",
                                   !.asked = site.asked,
                                   !.http = IF site.asked = 2 THEN second
                                            ELSE first]
    /\ pc' = "dv_done"
    /\ UNCHANGED <<outside, mock, min_validation_score, heap, source_data, pos, unique_buyers,
                   seen_companies, seen_emails, seen_phones, validated_buyers,
                   valid_buyers, validation_results,
                   second_pass, request_vars>>

----------------------------------------------------------------------------
(* DataValidator.validate_batch_data: every company is submitted to the    *)
(* pool of max_workers threads, and the results are appended in the order  *)
(* in which as_completed yields the futures.  companies_data is            *)
(* source_data.  A future is "pending" while it waits in the queue of the  *)
(* pool, "running" in a worker, "finished" once the worker has returned or *)
(* raised, and "yielded" once as_completed has handed it out.              *)

max_workers == 10

\* the marks the except block of lines 425-432 sets on the company itself
FailedCompany ==
    [email_valid |-> FALSE, phone_valid |-> FALSE, website_valid |-> FALSE,
     data_consistent |-> FALSE, validation_score |-> 0,
     status_verified |-> FALSE, validation_error |-> TRUE]

Submitted ==
    [state |-> "pending", raised |-> FALSE, result |-> FailedCompany]

\* what validate_company_data may return for the company: every check
\* passes as far as its fields allow, every check fails, or the phone
\* validator raises and the except block of lines 103-107 answers
CompanyResults(company) ==
    LET IsText(v) == v.t = "str" /\ v.s # <<>>
        email == IsText(GetOrEmpty(company.email))
        phone == IsText(GetOrEmpty(company.phone))
        website == IsText(GetOrEmpty(company.website))
    IN {ValidateCompanyData(email, phone, website, TRUE, 13, 0),
        ValidateCompanyData(FALSE, FALSE, FALSE, FALSE, 0, 0),
        ValidateCompanyData(email, FALSE, FALSE, FALSE, 0, 2)}

BatchUnchanged ==
    UNCHANGED <<pc, validator_vars, deadline, merge_vars, app_vars,
                   second_pass, request_vars>>

\* a thread of the pool takes the oldest company of the queue
WorkerStarts ==
    /\ pc = "dv_batch"
    /\ \E k \in 1..Len(futures) :
          /\ futures[k].state = "pending"
          /\ \A j \in 1..(k - 1) : futures[j].state # "pending"
          /\ Cardinality({j \in 1..Len(futures) : futures[j].state = "running"})
                < max_workers
          /\ futures' = [futures EXCEPT ![k].state = "running"]
    /\ UNCHANGED validated_companies
    /\ BatchUnchanged

\* validate_company_data returns its copy of the company
WorkerReturns ==
    /\ pc = "dv_batch"
    /\ \E k \in 1..Len(futures) :
          /\ futures[k].state = "running"
          /\ \E result \in CompanyResults(heap[source_data[k]]) :
                futures' = [futures EXCEPT ![k].state = "finished",
                                           ![k].result = result]
    /\ UNCHANGED validated_companies
    /\ BatchUnchanged

\* validate_company_data raises: an exception outside its try block (the
\* copy of line 51) or inside its except block
WorkerRaises ==
    /\ pc = "dv_batch"
    /\ \E k \in 1..Len(futures) :
          /\ futures[k].state = "running"
          /\ futures' = [futures EXCEPT ![k].state = "finished",
                                        ![k].raised = TRUE]
    /\ UNCHANGED validated_companies
    /\ BatchUnchanged

\* variant: the except block logs the error and appends nothing
CollectDropsFailed ==
    /\ pc = "dv_batch"
    /\ \E k \in 1..Len(futures) :
          /\ futures[k].state = "finished"
          /\ futures' = [futures EXCEPT ![k].state = "yielded"]
          /\ validated_companies' =
                IF futures[k].raised THEN validated_companies
                ELSE Append(validated_companies,
                            [company |-> source_data[k], original |-> FALSE,
                             validated |-> futures[k].result])
    /\ BatchUnchanged

\* one iteration of the loop over as_completed: a finished future is
\* yielded, and its result is appended, or the company itself with the
\* marks of the except block
Collect ==
    /\ pc = "dv_batch"
    /\ \E k \in 1..Len(futures) :
          /\ futures[k].state = "finished"
          /\ futures' = [futures EXCEPT ![k].state = "yielded"]
          /\ validated_companies' =
                Append(validated_companies,
                       IF futures[k].raised
                       THEN [company |-> source_data[k], original |-> TRUE,
                             validated |-> FailedCompany]
                       ELSE [company |-> source_data[k], original |-> FALSE,
                             validated |-> futures[k].result])
    /\ BatchUnchanged

\* every future has been yielded: return validated_companies
BatchReturn ==
    /\ pc = "dv_batch"
    /\ \A k \in 1..Len(futures) : futures[k].state = "yielded"
    /\ pc' = "dv_batch_done"
    /\ UNCHANGED <<validator_vars, deadline, batch_vars, merge_vars, app_vars,
                   second_pass, request_vars>>
----------------------------------------------------------------------------
(* DataProcessor._remove_duplicates and merge_dataframes.  A DataFrame is  *)
(* the sequence of its rows in index order; a row holds the columns the    *)
(* two methods read, date_added being a number that orders as the          *)
(* timestamp string does.                                                   *)

MaxRows == 2

Row(n, q, d) == [company_name |-> n, data_quality_score |-> q, date_added |-> d]

\* the rows of df at the places in keep, in the order of df
RECURSIVE RowsAt(_, _, _)
RowsAt(df, keep, i) ==
    IF i > Len(df) THEN <<>>
    ELSE (IF i \in keep THEN <<df[i]>> ELSE <<>>) \o RowsAt(df, keep, i + 1)

\* df.drop_duplicates(): of rows equal in every column the first stays
DropDuplicates(df) ==
    RowsAt(df, {i \in 1..Len(df) : \A j \in 1..(i - 1) : df[j] # df[i]}, 1)

\* df.drop_duplicates(subset=['company_name'], keep='first')
DropDuplicateNames(df) ==
    RowsAt(df, {i \in 1..Len(df) :
                   \A j \in 1..(i - 1) : df[j].company_name # df[i].company_name}, 1)

\* df.sort_values('data_quality_score', ascending=False): the default
\* quicksort is not stable, so rows of equal score may come in any order
RECURSIVE SortedByScore(_)
SortedByScore(df) ==
    IF df = <<>> THEN {<<>>}
    ELSE UNION {{<<df[first]>> \o rest :
                    rest \in SortedByScore(RowsAt(df, (1..Len(df)) \ {first}, 1))} :
                first \in {i \in 1..Len(df) :
                             \A j \in 1..Len(df) :
                                df[j].data_quality_score <= df[i].data_quality_score}}

\* does row a come before row b when sorting by ['data_quality_score',
\* 'date_added'], both descending?
ComesBefore(a, b) ==
    \/ a.data_quality_score > b.data_quality_score
    \/ /\ a.data_quality_score = b.data_quality_score
       /\ a.date_added > b.date_added

\* the sort by two columns is a stable one: rows that compare equal keep
\* their order
RECURSIVE SortedByScoreAndDate(_)
SortedByScoreAndDate(df) ==
    IF df = <<>> THEN <<>>
    ELSE LET first == CHOOSE i \in 1..Len(df) :
                         /\ \A j \in 1..Len(df) : ~ComesBefore(df[j], df[i])
                         /\ \A j \in 1..(i - 1) : ComesBefore(df[i], df[j])
         IN <<df[first]>>
              \o SortedByScoreAndDate(RowsAt(df, (1..Len(df)) \ {first}, 1))

\* variant: the rows are not sorted by score before the names are compared
RemoveDuplicatesUnsorted(df) ==
    IF df = <<>> THEN {df} ELSE {DropDuplicateNames(DropDuplicates(df))}

\* _remove_duplicates: what it may return
RemoveDuplicates(df) ==
    IF df = <<>> THEN {df}
    ELSE {DropDuplicateNames(sorted) : sorted \in SortedByScore(DropDuplicates(df))}

\* merge_dataframes(existing_df, new_df)
MergeDataframes ==
    /\ pc = "merge"
    /\ IF existing_df = <<>> THEN combined_df' = new_df
       ELSE IF new_df = <<>> THEN combined_df' = existing_df
       ELSE \E deduplicated \in RemoveDuplicates(existing_df \o new_df) :
               combined_df' = SortedByScoreAndDate(deduplicated)
    /\ pc' = "merged"
    /\ UNCHANGED <<validator_vars, deadline, batch_vars, existing_df, new_df, app_vars,
                   second_pass, request_vars>>
----------------------------------------------------------------------------
(* start_scraping (app.py:161-321).  pc is "idle" before the call,         *)
(* "entered" after line 163, "term" at the head of the loop over           *)
(* terms_list, "source" at the head of the loop over sources, "scrape"     *)
(* before the call of the collector, "sleep" at the rate limit of line     *)
(* 284, "final" at line 287, "finally" when the finally block is about to  *)
(* run and "ended" after it or after an early return.                      *)

\* the check boxes of the sidebar, in the order of lines 170-183
SourceNames ==
    <<"tradeindia", "indiamart", "exportersindia", "zauba", "tofler",
      "government_data", "alibaba">>

\* the sources list of lines 169-183 for the values of the check boxes
ConfiguredSources(use) ==
    RowsAt(SourceNames, {k \in 1..Len(SourceNames) : use[k]}, 1)

\* line 166, search_terms given as its lines: the stripped lines that are
\* not empty
RECURSIVE ParseTerms(_)
ParseTerms(lines) ==
    IF lines = <<>> THEN <<>>
    ELSE (IF Strip(Head(lines)) # <<>> THEN <<Strip(Head(lines))>> ELSE <<>>)
            \o ParseTerms(Tail(lines))

\* a Python call binds when every keyword names a parameter that no
\* positional argument has taken; otherwise it raises TypeError
CallBinds(parameters, positional, keywords) ==
    /\ positional <= Len(parameters)
    /\ \A k \in keywords :
          \E p \in (positional + 1)..Len(parameters) : parameters[p] = k

\* scraper.scrape_buyers([term], limit=target_count - total_collected)
\* (app.py:242) against def scrape_buyers(self, search_terms, target_count=50)
\* (hyper_scraper.py:546)
ScrapeBuyersBinds == CallBinds(<<"search_terms", "target_count">>, 1, {"limit"})

\* the variables of the pipeline steps, which start_scraping leaves alone
\* outside lines 242-257
pipeline_vars == <<min_validation_score, heap, pos, unique_buyers,
                   seen_companies, seen_emails, seen_phones, validated_buyers,
                   valid_buyers, dv_result, validation_results, reply, mock>>

\* line 163
EnterScraping ==
    /\ pc = "idle"
    /\ scraping_in_progress' = TRUE
    /\ pc' = "entered"
    /\ UNCHANGED <<pipeline_vars, source_data, deadline, batch_vars, merge_vars,
                   terms_list, sources, term_index, source_index, target_count,
                   collected_data, total_collected,
                   second_pass, request_vars>>

\* lines 185-188: no source is selected
ReturnNoSources ==
    /\ pc = "entered"
    /\ sources = <<>>
    /\ scraping_in_progress' = FALSE
    /\ pc' = "ended"
    /\ UNCHANGED <<pipeline_vars, source_data, deadline, batch_vars, merge_vars,
                   terms_list, sources, term_index, source_index, target_count,
                   collected_data, total_collected,
                   second_pass, request_vars>>

\* lines 190-193: no search term is given
ReturnNoTerms ==
    /\ pc = "entered"
    /\ sources # <<>>
    /\ terms_list = <<>>
    /\ scraping_in_progress' = FALSE
    /\ pc' = "ended"
    /\ UNCHANGED <<pipeline_vars, source_data, deadline, batch_vars, merge_vars,
                   terms_list, sources, term_index, source_index, target_count,
                   collected_data, total_collected,
                   second_pass, request_vars>>

\* lines 195-213: the scraper, the processor and the validator are made,
\* and the try block is entered
BeginCollecting ==
    /\ pc = "entered"
    /\ sources # <<>>
    /\ terms_list # <<>>
    /\ collected_data' = <<>>
    /\ total_collected' = 0
    /\ term_index' = 1
    /\ pc' = "term"
    /\ UNCHANGED <<pipeline_vars, source_data, deadline, batch_vars, merge_vars,
                   scraping_in_progress, terms_list, sources, source_index,
                   target_count,
                   second_pass, request_vars>>

\* lines 215-217: the next term, unless the terms are used up or the target
\* is reached
TermHead ==
    /\ pc = "term"
    /\ IF term_index > Len(terms_list) \/ total_collected >= target_count
       THEN /\ pc' = "final"
            /\ UNCHANGED source_index
       ELSE /\ pc' = "source"
            /\ source_index' = 1
    /\ UNCHANGED <<pipeline_vars, source_data, deadline, batch_vars, merge_vars,
                   scraping_in_progress, terms_list, sources, term_index,
                   target_count, collected_data, total_collected,
                   second_pass, request_vars>>

\* lines 222-224: the next source, unless the sources are used up or the
\* target is reached
SourceHead ==
    /\ pc = "source"
    /\ IF source_index > Len(sources) \/ total_collected >= target_count
       THEN /\ pc' = "term"
            /\ term_index' = term_index + 1
       ELSE /\ pc' = "scrape"
            /\ UNCHANGED term_index
    /\ UNCHANGED <<pipeline_vars, source_data, deadline, batch_vars, merge_vars,
                   scraping_in_progress, terms_list, sources, source_index,
                   target_count, collected_data, total_collected,
                   second_pass, request_vars>>

\* lines 238-245 and 280-281: the call of the collector does not bind, the
\* TypeError is caught by the except block of the iteration and shown as a
\* warning; source_data is not assigned
ScrapeSource ==
    /\ pc = "scrape"
    /\ ~ScrapeBuyersBinds
    /\ pc' = "sleep"
    /\ UNCHANGED <<pipeline_vars, source_data, deadline, batch_vars, merge_vars,
                   app_vars,
                   second_pass, request_vars>>

\* lines 280-281: an exception of the pipeline steps is caught by the
\* except block of the iteration and shown as a warning
WarnAndGoOn ==
    /\ pc = "raised"
    /\ pc' = "sleep"
    /\ UNCHANGED <<pipeline_vars, source_data, deadline, batch_vars, merge_vars,
                   app_vars,
                   second_pass, request_vars>>

\* lines 259-278: the valid buyers are added to the collection
CollectValid ==
    /\ pc = "done"
    /\ IF valid_buyers # <<>>
       THEN /\ collected_data' = collected_data \o valid_buyers
            /\ total_collected' = Len(collected_data \o valid_buyers)
       ELSE UNCHANGED <<collected_data, total_collected>>
    /\ pc' = "sleep"
    /\ UNCHANGED <<pipeline_vars, source_data, deadline, batch_vars, merge_vars,
                   scraping_in_progress, terms_list, sources, term_index,
                   source_index, target_count,
                   second_pass, request_vars>>

\* line 284
RateLimit ==
    /\ pc = "sleep"
    /\ source_index' = source_index + 1
    /\ pc' = "source"
    /\ UNCHANGED <<pipeline_vars, source_data, deadline, batch_vars, merge_vars,
                   scraping_in_progress, terms_list, sources, term_index,
                   target_count, collected_data, total_collected,
                   second_pass, request_vars>>

\* lines 287 and 310-311: nothing was collected
FinalNoData ==
    /\ pc = "final"
    /\ collected_data = <<>>
    /\ pc' = "finally"
    /\ UNCHANGED <<pipeline_vars, source_data, deadline, batch_vars, merge_vars,
                   app_vars,
                   second_pass, request_vars>>
\* lines 287-309: the collected records are processed, merged into the
\* stored dataset (merge_dataframes) and counted
FinalData ==
    /\ pc = "final"
    /\ collected_data # <<>>
    /\ pc' = "finally"
    /\ UNCHANGED <<pipeline_vars, source_data, deadline, batch_vars, merge_vars,
                   app_vars,
                   second_pass, request_vars>>


\* an exception in the try block of line 211 outside the try block of an
\* iteration (lines 217, 284 and 287-311): the except block of line 313
\* shows it
OuterRaises ==
    /\ pc \in {"term", "source", "sleep", "final"}
    /\ pc' = "finally"
    /\ UNCHANGED <<pipeline_vars, source_data, deadline, batch_vars, merge_vars,
                   app_vars,
                   second_pass, request_vars>>

\* variant: no finally block
FinallyKeepsFlag ==
    /\ pc = "finally"
    /\ pc' = "ended"
    /\ UNCHANGED <<pipeline_vars, source_data, deadline, batch_vars, merge_vars,
                   app_vars,
                   second_pass, request_vars>>

\* lines 316-321: the finally block
Finally ==
    /\ pc = "finally"
    /\ scraping_in_progress' = FALSE
    /\ pc' = "ended"
    /\ UNCHANGED <<pipeline_vars, source_data, deadline, batch_vars, merge_vars,
                   terms_list, sources, term_index, source_index, target_count,
                   collected_data, total_collected,
                   second_pass, request_vars>>
----------------------------------------------------------------------------
(* AdvancedTurmericBuyerScraper._make_request and _make_advanced_request   *)
(* (scraper.py:460-482 and 813-843).  pc is "request" at the head of the   *)
(* loop, "cloud" while the GET of CloudScraper is out, "get" while the GET *)
(* of the session is out, "backoff" before the sleep, "returned" after a   *)
(* return and "propagated" when an exception has left the function.  One   *)
(* GET of the session is one attempt here, whatever the Retry strategy of  *)
(* its adapter (lines 31-37) does inside it.                               *)

\* 2 ** n
RECURSIVE Pow2(_)
Pow2(n) == IF n = 0 THEN 1 ELSE 2 * Pow2(n - 1)

\* random.uniform(2 ** attempt, 2 ** (attempt + 1)), in whole seconds
WaitTimes(n) == Pow2(n)..Pow2(n + 1)

RequestUnchanged ==
    UNCHANGED <<validator_vars, deadline, batch_vars, merge_vars, app_vars,
                second_pass>>

\* lines 462-465 and 815-821: the next iteration of the loop begins
AttemptBegins ==
    /\ pc = "request"
    /\ attempt < max_retries
    /\ tried' = tried + 1
    /\ pc' = IF advanced THEN "cloud" ELSE "get"
    /\ UNCHANGED <<max_retries, advanced, attempt, failed, slept, response>>
    /\ RequestUnchanged

\* lines 821-823: CloudScraper answers 200
CloudReturns ==
    /\ pc = "cloud"
    /\ response' = "response"
    /\ pc' = "returned"
    /\ UNCHANGED <<max_retries, advanced, attempt, tried, failed, slept>>
    /\ RequestUnchanged

\* lines 821-825: CloudScraper answers with another status or raises; the
\* session is tried
CloudFallsBack ==
    /\ pc = "cloud"
    /\ pc' = "get"
    /\ UNCHANGED request_vars
    /\ RequestUnchanged

\* lines 471-473 and 831-833: the session answers with a status below 400
GetReturns ==
    /\ pc = "get"
    /\ response' = "response"
    /\ pc' = "returned"
    /\ UNCHANGED <<max_retries, advanced, attempt, tried, failed, slept>>
    /\ RequestUnchanged

\* variant: the wait is taken after every failed attempt
GetFailsAlwaysWaits ==
    /\ pc = "get"
    /\ failed' = failed + 1
    /\ pc' = "backoff"
    /\ UNCHANGED <<max_retries, advanced, attempt, tried, slept, response>>
    /\ RequestUnchanged

\* lines 474-481 and 836-842: the GET or raise_for_status raises a
\* RequestException
GetFails ==
    /\ pc = "get"
    /\ failed' = failed + 1
    /\ IF attempt < max_retries - 1
       THEN /\ pc' = "backoff"
            /\ UNCHANGED attempt
       ELSE /\ pc' = "request"
            /\ attempt' = attempt + 1
    /\ UNCHANGED <<max_retries, advanced, tried, slept, response>>
    /\ RequestUnchanged

\* lines 478-479 and 839-840
Backoff ==
    /\ pc = "backoff"
    /\ \E wait_time \in WaitTimes(attempt) :
          slept' = Append(slept, [after |-> attempt, wait_time |-> wait_time])
    /\ attempt' = attempt + 1
    /\ pc' = "request"
    /\ UNCHANGED <<max_retries, advanced, tried, failed, response>>
    /\ RequestUnchanged

\* lines 482 and 843: the loop is over
ReturnNone ==
    /\ pc = "request"
    /\ attempt >= max_retries
    /\ response' = "None"
    /\ pc' = "returned"
    /\ UNCHANGED <<max_retries, advanced, attempt, tried, failed, slept>>
    /\ RequestUnchanged

\* an exception that is no RequestException (self.ua.random of line 75,
\* the Referer of line 829) is not caught and leaves the function
OtherException ==
    /\ pc \in {"cloud", "get"}
    /\ pc' = "propagated"
    /\ UNCHANGED request_vars
    /\ RequestUnchanged



----------------------------------------------------------------------------
(* The batch-level deadline.  validate_batch_data reads no clock: the loop *)
(* of lines 327-333 goes on to the next record whatever time has passed,   *)
(* so the deadline of the run passes without the loop taking notice.       *)

DeadlinePasses ==
    /\ pc = "validate"
    /\ ~deadline.passed
    /\ Len(validated_buyers) < Len(unique_buyers)
    /\ deadline' = [passed |-> TRUE, completed |-> Len(validated_buyers)]
    /\ UNCHANGED <<pc, validator_vars, batch_vars, merge_vars, app_vars,
                   second_pass, request_vars>>

----------------------------------------------------------------------------
(* The records the source collector may hand over. *)

NameAbc == Str(<<"a","b","c">>)
NameAbcUpper == Str(<<"A","B","C"," ">>)
NameAbcDot == Str(<<"a","b","c",".">>)
NameXyz == Str(<<"x","y","z">>)
NameShort == Str(<<"a","b">>)
NameSpamWords == Str(<<"j","o","h","n"," "," ","d","o","e">>)
NameSpamRun == Str(<<"x","x","x">>)
NameDigits == Str(<<"1","2","3">>)
NameRepeated == Str(<<"b","b","b","b","b">>)
EmailA == Str(<<"a","@","b",".","c","o">>)
EmailAUpper == Str(<<"A","@","b",".","c","o"," ">>)
EmailC == Str(<<"c","@","b",".","c","o">>)
EmailNoAt == Str(<<"a","b">>)
EmailNoTld == Str(<<"a","@","b">>)
EmailDisposable == Str(<<"a","@","g","r","r",".","l","a">>)
EmailDisposableUpper == Str(<<"a","@","G","R","R",".","L","A">>)
PhonePlain == Str(<<"9","8","7","6","5","4","3","2","1","0">>)
PhoneDashed == Str(<<"9","8","7","6","5","-","4","3","2","1","0">>)
PhoneWithCode == Str(<<"+","9","1","9","8","7","6","5","4","3","2","1","0">>)
PhoneShort == Str(<<"1","2","3","4","5">>)
PhoneFake == Str(<<"1","2","3","4","5","6","7","8","9","0">>)
PhoneFakeDashed == Str(<<"1","2","3","-","4","5","6","-","7","8","9","0">>)
SiteBare == Str(<<"b",".","c","o">>)
SiteHttps == Str(<<"h","t","t","p","s",":","/","/","b",".","c","o">>)
SiteHttpPath == Str(<<"h","t","t","p",":","/","/","b",".","c","o","/","x">>)
SiteNoHost == Str(<<"h","t","t","p","s",":","/","/">>)
SiteBracket == Str(<<"b",".","c","o","[">>)
EmptyStr == Str(<<>>)

PhoneLandline == Str(<<"1","1","2","3","4","5","6","7","8","9">>)

Thresholds == {60, 80, 100}

\* records that differ in the fields deduplication reads: pairs that share
\* a name key, an email key, a phone key, the last digits of the phone, or
\* have similar names, and records with a field that is absent, '' or None
DedupPool ==
    {NewBuyer(NameAbc, EmailA, PhonePlain, Absent),
     NewBuyer(NameXyz, EmailAUpper, PhoneWithCode, Absent),
     NewBuyer(NameXyz, EmailA, PhonePlain, Absent),
     NewBuyer(NameAbcDot, EmailC, PhoneWithCode, Absent),
     NewBuyer(NameAbcDot, EmailAUpper, PhonePlain, Absent),
     NewBuyer(NameAbcUpper, EmailC, PhoneShort, Absent),
     NewBuyer(Absent, EmptyStr, PhoneDashed, Absent),
     NewBuyer(EmptyStr, Absent, PhoneShort, Absent),
     NewBuyer(NameXyz, EmailC, Absent, Absent),
     NewBuyer(None, EmailC, PhonePlain, Absent),
     NewBuyer(NameXyz, None, PhonePlain, Absent),
     NewBuyer(NameXyz, EmailC, None, Absent)}

\* records that differ in what the field validators read: every combination
\* of a few values, and every other value next to valid ones
ValidatePool ==
    {NewBuyer(n, e, p, w) :
        n \in {NameAbc, NameDigits},
        e \in {EmailA, EmailDisposable, EmailNoAt},
        p \in {PhonePlain, PhoneWithCode, PhoneFake},
        w \in {SiteBare, EmptyStr, Num}}
    \cup {NewBuyer(n, EmailA, PhonePlain, SiteBare) :
            n \in {NameShort, NameSpamWords, NameSpamRun, NameRepeated,
                   NameAbcUpper, EmptyStr, Absent, None, Num}}
    \cup {NewBuyer(NameAbc, e, PhonePlain, SiteBare) :
            e \in {EmailAUpper, EmailNoTld, EmailDisposableUpper,
                   EmptyStr, Absent, None, Num}}
    \cup {NewBuyer(NameAbc, EmailA, p, SiteBare) :
            p \in {PhoneDashed, PhoneShort, PhoneFakeDashed,
                   EmptyStr, Absent, None, Num}}
    \cup {NewBuyer(NameAbc, EmailA, PhonePlain, w) :
            w \in {SiteHttps, SiteHttpPath, SiteNoHost, SiteBracket, Absent, None}}

\* records for a whole run: two buyers that can be accepted or rejected, a
\* duplicate of the first, one whose validation raises and one whose
\* deduplication raises
PipelinePool ==
    {NewBuyer(NameAbc, EmailA, PhonePlain, SiteBare),
     NewBuyer(NameXyz, EmailC, PhoneWithCode, SiteHttps),
     NewBuyer(NameAbcDot, EmailAUpper, PhoneShort, Absent),
     NewBuyer(Absent, Absent, Absent, Num),
     NewBuyer(NameXyz, None, PhonePlain, Absent)}

Batches(pool, lo, hi) == UNION {[1..n -> pool] : n \in lo..hi}

----------------------------------------------------------------------------
(* The specifications. *)

InitRun(batch) ==
    /\ heap = batch
    /\ source_data = [k \in 1..Len(batch) |-> k]
    /\ pos = 0
    /\ unique_buyers = <<>>
    /\ seen_companies = {}
    /\ seen_emails = {}
    /\ seen_phones = {}
    /\ validated_buyers = <<>>
    /\ valid_buyers = <<>>
    /\ dv_result = <<>>
    /\ validation_results = NoResults
    /\ reply = NoReply
    /\ mock = NoMock
    /\ deadline = NoDeadline
    /\ NoBatch
    /\ NoMerge
    /\ second_pass = FALSE
    /\ NoRequest

\* start_scraping, steps 1 to 3 on the batch of one source (app.py:247-257)
Init ==
    /\ min_validation_score \in Thresholds
    /\ pc = "dedup"
    /\ \E batch \in Batches(PipelinePool, 1, MaxBatch) : InitRun(batch)
    /\ NoApp

Next ==
    \/ DedupStep
    \/ DedupRaise
    \/ DedupReturn
    \/ ValidateName
    \/ ValidateEmail
    \/ ValidatePhone
    \/ ValidateWebsite
    \/ ValidateFinish
    \/ ValidateRaise
    \/ ValidateReturn
    \/ FilterValid

Spec == Init /\ [][Next]_vars

\* start_scraping from line 247 to its end, on the batch the collector has
\* handed over for the first of two sources; the target is scaled down to
\* the size of the batches
InitLoop ==
    /\ min_validation_score \in Thresholds
    /\ pc = "dedup"
    /\ \E batch \in Batches(PipelinePool, 1, MaxBatch) : InitRun(batch)
    /\ scraping_in_progress = TRUE
    /\ terms_list = <<<<"t">>>>
    /\ sources = <<"indiamart", "alibaba">>
    /\ term_index = 1
    /\ source_index = 1
    /\ target_count = 2
    /\ collected_data = <<>>
    /\ total_collected = 0

NextLoop ==
    \/ Next
    \/ WarnAndGoOn
    \/ CollectValid
    \/ RateLimit
    \/ SourceHead
    \/ TermHead
    \/ FinalData
    \/ Finally

SpecLoop == InitLoop /\ [][NextLoop]_vars

\* remove_duplicates_advanced alone
InitDedup ==
    /\ min_validation_score = 80
    /\ pc = "dedup"
    /\ \E batch \in Batches(DedupPool, 1, MaxBatch) : InitRun(batch)
    /\ NoApp

NextDedup == DedupStep \/ DedupRaise \/ DedupReturn

SpecDedup == InitDedup /\ [][NextDedup]_vars

\* validate_batch_data and filter_valid_buyers_only of AdvancedDataValidator,
\* or validate_company_data of DataValidator, on one record
InitValidate ==
    /\ min_validation_score \in Thresholds
    /\ pc \in {"validate", "dv"}
    /\ pc = "dv" => min_validation_score = 80
    /\ \E buyer \in ValidatePool :
          /\ heap = <<buyer>>
          /\ source_data = <<1>>
          /\ pos = 0
          /\ unique_buyers = <<1>>
          /\ seen_companies = {}
          /\ seen_emails = {}
          /\ seen_phones = {}
          /\ validated_buyers = <<>>
          /\ valid_buyers = <<>>
          /\ dv_result = <<>>
          /\ validation_results = NoResults
          /\ reply = NoReply
          /\ mock = NoMock
    /\ InitOutside

NextValidate ==
    \/ ValidateName
    \/ ValidateEmail
    \/ ValidatePhone
    \/ ValidateWebsite
    \/ ValidateFinish
    \/ ValidateRaise
    \/ ValidateReturn
    \/ FilterValid
    \/ DVValidate

SpecValidate == InitValidate /\ [][NextValidate]_vars

\* validate_batch_data on the same record twice, the resolver, the library
\* and the web server mocked to constant answers
MockPool ==
    {NewBuyer(NameAbc, EmailA, PhoneWithCode, SiteBare),
     NewBuyer(NameAbc, EmailA, PhoneLandline, SiteHttps),
     NewBuyer(NameAbc, EmailDisposable, PhoneFake, EmptyStr),
     NewBuyer(NameAbc, EmailA, PhoneShort, Num)}

MockedHintAnswers(buyer) ==
    LET phone == GetOrEmpty(buyer.phone)
    IN IF PhoneAsksLib(phone)
       THEN [1..Len(RegionHints) -> HintAnswers(CleanPhone(phone.s))]
       ELSE {[h \in 1..Len(RegionHints) |->
                [raises |-> TRUE, valid |-> FALSE, country |-> "", format |-> <<>>]]}

InitMock ==
    /\ min_validation_score = 80
    /\ pc = "validate"
    /\ \E buyer \in MockPool :
          /\ heap = <<buyer>>
          /\ \E mx \in {"records", "timeout"},
                http \in {h \in HttpReplies :
                             h.kind = "Timeout" \/ h.status \in {200, 400}},
                answers \in MockedHintAnswers(buyer) :
               mock = [on |-> TRUE, mx |-> mx, lib |-> answers, http |-> http]
    /\ source_data = <<1>>
    /\ pos = 0
    /\ unique_buyers = <<1, 1>>
    /\ seen_companies = {}
    /\ seen_emails = {}
    /\ seen_phones = {}
    /\ validated_buyers = <<>>
    /\ valid_buyers = <<>>
    /\ dv_result = <<>>
    /\ validation_results = NoResults
    /\ reply = NoReply
    /\ InitOutside

NextMock ==
    \/ ValidateName
    \/ ValidateEmail
    \/ ValidatePhone
    \/ ValidateWebsite
    \/ ValidateFinish
    \/ ValidateRaise
    \/ ValidateReturn
    \/ FilterValid

SpecMock == InitMock /\ [][NextMock]_vars

\* validate_batch_data and filter_valid_buyers_only on a batch, the deadline
\* of the run passing at any moment of the validation
DeadlinePool ==
    {NewBuyer(NameAbc, EmailA, PhonePlain, SiteBare),
     NewBuyer(NameXyz, EmailNoAt, PhoneWithCode, EmptyStr),
     NewBuyer(NameAbc, EmailA, PhonePlain, Num)}

InitDeadline ==
    /\ min_validation_score = 80
    /\ pc = "validate"
    /\ \E batch \in Batches(DeadlinePool, 1, MaxBatch) :
          /\ heap = batch
          /\ source_data = [k \in 1..Len(batch) |-> k]
          /\ unique_buyers = source_data
    /\ pos = 0
    /\ seen_companies = {}
    /\ seen_emails = {}
    /\ seen_phones = {}
    /\ validated_buyers = <<>>
    /\ valid_buyers = <<>>
    /\ dv_result = <<>>
    /\ validation_results = NoResults
    /\ reply = NoReply
    /\ mock = NoMock
    /\ InitOutside

NextDeadline ==
    \/ ValidateName
    \/ ValidateEmail
    \/ ValidatePhone
    \/ ValidateWebsite
    \/ ValidateFinish
    \/ ValidateRaise
    \/ ValidateReturn
    \/ FilterValid
    \/ DeadlinePasses

SpecDeadline == InitDeadline /\ [][NextDeadline]_vars

\* DataValidator.validate_batch_data on a batch
BatchPool ==
    {NewBuyer(NameAbc, EmailA, PhonePlain, SiteBare),
     NewBuyer(NameXyz, Absent, PhoneShort, EmptyStr)}

InitBatch ==
    /\ min_validation_score = 80
    /\ pc = "dv_batch"
    /\ \E batch \in Batches(BatchPool, 1, MaxBatch) :
          /\ heap = batch
          /\ source_data = [k \in 1..Len(batch) |-> k]
          /\ futures = [k \in 1..Len(batch) |-> Submitted]
    /\ validated_companies = <<>>
    /\ pos = 0
    /\ unique_buyers = <<>>
    /\ seen_companies = {}
    /\ seen_emails = {}
    /\ seen_phones = {}
    /\ validated_buyers = <<>>
    /\ valid_buyers = <<>>
    /\ dv_result = <<>>
    /\ validation_results = NoResults
    /\ reply = NoReply
    /\ mock = NoMock
    /\ deadline = NoDeadline
    /\ NoMerge
    /\ second_pass = FALSE
    /\ NoRequest
    /\ NoApp

NextBatch ==
    \/ WorkerStarts
    \/ WorkerReturns
    \/ WorkerRaises
    \/ Collect
    \/ BatchReturn

SpecBatch == InitBatch /\ [][NextBatch]_vars

\* merge_dataframes on two DataFrames that process_data or an earlier merge
\* has returned: no name twice, the rows in descending order of score; the
\* new rows carry the timestamp of this run
Frames(rows) ==
    {df \in UNION {[1..n -> rows] : n \in 0..MaxRows} :
        /\ \A i, j \in 1..Len(df) : i # j => df[i].company_name # df[j].company_name
        /\ \A i \in 1..(Len(df) - 1) :
              df[i].data_quality_score >= df[i + 1].data_quality_score}

MergeNames == {NameAbc.s, NameXyz.s, NameAbcDot.s}

InitMerge ==
    /\ min_validation_score = 80
    /\ pc = "merge"
    /\ existing_df \in Frames({Row(n, q, d) : n \in MergeNames, q \in {5, 7}, d \in {1, 2}})
    /\ new_df \in Frames({Row(n, q, 2) : n \in MergeNames, q \in {5, 7}})
    /\ combined_df = <<>>
    /\ heap = <<>>
    /\ source_data = <<>>
    /\ pos = 0
    /\ unique_buyers = <<>>
    /\ seen_companies = {}
    /\ seen_emails = {}
    /\ seen_phones = {}
    /\ validated_buyers = <<>>
    /\ valid_buyers = <<>>
    /\ dv_result = <<>>
    /\ validation_results = NoResults
    /\ reply = NoReply
    /\ mock = NoMock
    /\ deadline = NoDeadline
    /\ NoBatch
    /\ NoApp
    /\ second_pass = FALSE
    /\ NoRequest

NextMerge == MergeDataframes

SpecMerge == InitMerge /\ [][NextMerge]_vars

\* start_scraping as the button of the dashboard calls it: the lines of the
\* text area, the check boxes of the sources and the least target of the
\* slider; the sources hold one buyer
MaxTerms == 2

TermLines == {<<"t">>, <<" ">>, <<" ", "u">>}

InitApp ==
    /\ min_validation_score = 80
    /\ pc = "idle"
    /\ scraping_in_progress = FALSE
    /\ \E lines \in UNION {[1..n -> TermLines] : n \in 1..MaxTerms} :
          terms_list = ParseTerms(lines)
    /\ \E use \in [1..Len(SourceNames) -> BOOLEAN] :
          sources = ConfiguredSources(use)
    /\ term_index = 0
    /\ source_index = 0
    /\ target_count = 10
    /\ collected_data = <<>>
    /\ total_collected = 0
    /\ heap = <<NewBuyer(NameAbc, EmailA, PhonePlain, SiteBare)>>
    /\ source_data = <<>>
    /\ pos = 0
    /\ unique_buyers = <<>>
    /\ seen_companies = {}
    /\ seen_emails = {}
    /\ seen_phones = {}
    /\ validated_buyers = <<>>
    /\ valid_buyers = <<>>
    /\ dv_result = <<>>
    /\ validation_results = NoResults
    /\ reply = NoReply
    /\ mock = NoMock
    /\ deadline = NoDeadline
    /\ NoBatch
    /\ NoMerge
    /\ second_pass = FALSE
    /\ NoRequest

NextApp ==
    \/ EnterScraping
    \/ ReturnNoSources
    \/ ReturnNoTerms
    \/ BeginCollecting
    \/ TermHead
    \/ SourceHead
    \/ ScrapeSource
    \/ RateLimit
    \/ FinalNoData
    \/ OuterRaises
    \/ Finally

SpecApp == InitApp /\ [][NextApp]_vars

\* remove_duplicates_advanced, and once more on what it returned
NextDedupTwice == DedupStep \/ DedupRaise \/ DedupReturn \/ DedupAgain

SpecDedupTwice == InitDedup /\ [][NextDedupTwice]_vars

\* one call of _make_request or _make_advanced_request; the callers leave
\* max_retries at 3
MaxRetries == 3

InitRequest ==
    /\ min_validation_score = 80
    /\ pc = "request"
    /\ max_retries \in 0..MaxRetries
    /\ advanced \in BOOLEAN
    /\ attempt = 0
    /\ tried = 0
    /\ failed = 0
    /\ slept = <<>>
    /\ response = "not returned"
    /\ heap = <<>>
    /\ source_data = <<>>
    /\ pos = 0
    /\ unique_buyers = <<>>
    /\ seen_companies = {}
    /\ seen_emails = {}
    /\ seen_phones = {}
    /\ validated_buyers = <<>>
    /\ valid_buyers = <<>>
    /\ dv_result = <<>>
    /\ validation_results = NoResults
    /\ reply = NoReply
    /\ mock = NoMock
    /\ deadline = NoDeadline
    /\ NoBatch
    /\ existing_df = <<>>
    /\ new_df = <<>>
    /\ combined_df = <<>>
    /\ NoApp
    /\ second_pass = FALSE

NextRequest ==
    \/ AttemptBegins
    \/ CloudReturns
    \/ CloudFallsBack
    \/ GetReturns
    \/ GetFails
    \/ Backoff
    \/ ReturnNone
    \/ OtherException

\* every GET has a timeout of 30 seconds and every sleep ends, so a call
\* that can take a step takes one
SpecRequest == InitRequest /\ [][NextRequest]_vars /\ WF_vars(NextRequest)

----------------------------------------------------------------------------
(* Properties of remove_duplicates_advanced, over SpecDedup.  A record's   *)
(* id is its position in the input, source_data being 1, 2, ..             *)

Kept(i) == \E k \in 1..Len(unique_buyers) : unique_buyers[k] = i

LastTen(digits) == SubSeq(digits, Len(digits) - 9, Len(digits))

SharesKey(a, b) ==
    \/ CompanyKey(a) # <<>> /\ CompanyKey(a) = CompanyKey(b)
    \/ EmailKey(a) # <<>> /\ EmailKey(a) = EmailKey(b)
    \/ Len(PhoneKey(a)) >= 10 /\ PhoneKey(a) = PhoneKey(b)

Matches(earlier, later) ==
    \/ SharesKey(earlier, later)
    \/ SimilarityAbove85(CompanyKey(later), CompanyKey(earlier))

\* C5: of any two input records with the same non-empty email (compared
\* lower-cased and stripped) at most one is in the output, whatever their
\* names and phones are.
C5_SharedEmailOneSurvives ==
    \A i, j \in 1..pos :
        (/\ i < j
         /\ EmailKey(heap[i]) # <<>>
         /\ EmailKey(heap[i]) = EmailKey(heap[j]))
        => ~(Kept(i) /\ Kept(j))

\* the call has returned having dropped a record that has nothing but the
\* email in common with the kept record before it, the two emails differing
\* in case and padding
C5_Witness ==
    /\ pc = "validate"
    /\ \E i, j \in 1..pos :
          /\ i < j
          /\ Kept(i)
          /\ ~Kept(j)
          /\ heap[i].email # heap[j].email
          /\ EmailKey(heap[i]) # <<>>
          /\ EmailKey(heap[i]) = EmailKey(heap[j])
          /\ PhoneKey(heap[i]) # PhoneKey(heap[j])
          /\ \A k \in 1..(j - 1) :
                /\ CompanyKey(heap[k]) # CompanyKey(heap[j])
                /\ ~SimilarityAbove85(CompanyKey(heap[j]), CompanyKey(heap[k]))

\* C6: the phone key is the last 10 digits of the digits of the phone: of
\* two records whose phones have at least 10 digits and the same last 10 at
\* most one is in the output, and a record whose phone has fewer than 10
\* digits is not dropped for its phone.
C6_SameLastTenOneSurvives ==
    /\ \A i, j \in 1..pos :
          (/\ i < j
           /\ Len(PhoneKey(heap[i])) >= 10
           /\ Len(PhoneKey(heap[j])) >= 10
           /\ LastTen(PhoneKey(heap[i])) = LastTen(PhoneKey(heap[j])))
          => ~(Kept(i) /\ Kept(j))
    /\ \A j \in 1..pos :
          (/\ Len(PhoneKey(heap[j])) < 10
           /\ \A i \in 1..(j - 1) :
                 Kept(i) =>
                    /\ ~(CompanyKey(heap[i]) # <<>>
                         /\ CompanyKey(heap[i]) = CompanyKey(heap[j]))
                    /\ ~(EmailKey(heap[i]) # <<>>
                         /\ EmailKey(heap[i]) = EmailKey(heap[j]))
                    /\ ~SimilarityAbove85(CompanyKey(heap[j]), CompanyKey(heap[i])))
          => Kept(j)

\* C7: the output is a subsequence of the input in input order, the first
\* input record is in it, and every dropped record matches a kept record
\* before it by a key or by the similarity of the names.
C7_FirstOccurrenceWins ==
    /\ \A k \in 1..Len(unique_buyers) : unique_buyers[k] \in 1..pos
    /\ \A k \in 1..(Len(unique_buyers) - 1) : unique_buyers[k] < unique_buyers[k + 1]
    /\ pos >= 1 => Kept(1)
    /\ \A j \in 1..pos :
          ~Kept(j) => \E i \in 1..(j - 1) : Kept(i) /\ Matches(heap[i], heap[j])

\* the call has returned the first and the third of three records, the
\* second dropped for the similarity of its name alone
C7_Witness ==
    /\ pc = "validate"
    /\ pos = 3
    /\ unique_buyers = <<1, 3>>
    /\ ~SharesKey(heap[1], heap[2])
    /\ SimilarityAbove85(CompanyKey(heap[2]), CompanyKey(heap[1]))

\* C9: the call completes without raising on records whose email, phone or
\* company_name key is absent or null.
C9_DedupToleratesMissing == pc # "raised"

----------------------------------------------------------------------------
(* Properties of validation, over SpecValidate. *)

\* the records validate_batch_data has returned that carry verdicts
Results == {validated_buyers[k] : k \in 1..Len(validated_buyers)}

GatesHold(buyer) ==
    /\ buyer.company_name_valid
    /\ buyer.email_valid
    /\ ~buyer.email_disposable
    /\ buyer.phone_valid

\* no value to validate: the key is absent, or holds '' or None
Missing(v) == ~Truthy(v)

\* the call is in progress and at least k field validators have returned
Returned(k) ==
    /\ pc = "validate"
    /\ Len(validated_buyers) < Len(unique_buyers)
    /\ validation_results.step >= k

\* C2: every accepted record has a valid company name, a valid email that
\* is not disposable, a valid phone and a score that is at least the
\* threshold of the tier chosen in the app (60, 80 or 100).
C2_AcceptedMeetsEveryGate ==
    /\ \A id \in 1..Len(heap) :
          heap[id].status_verified = "VALID" =>
             /\ heap[id].has_results
             /\ GatesHold(heap[id])
             /\ heap[id].validation_score >= min_validation_score
    /\ \A k \in 1..Len(valid_buyers) :
          heap[valid_buyers[k]].status_verified = "VALID"

\* a record has been accepted under the strictest tier
C2_Witness ==
    /\ pc = "done"
    /\ min_validation_score = 100
    /\ Len(valid_buyers) = 1
    /\ heap[valid_buyers[1]].status_verified = "VALID"

\* C3: a record is accepted exactly when the gates hold and its score is
\* at least the threshold the caller chose; one with every field valid but
\* the website scores 75 and is accepted at a threshold of 60, rejected at
\* 80 and at 100.
C3_AcceptedIffGatesAndThreshold ==
    \A id \in Results :
        heap[id].has_results =>
           /\ heap[id].status_verified = "VALID"
                 <=> (GatesHold(heap[id])
                      /\ heap[id].validation_score >= min_validation_score)
           /\ (GatesHold(heap[id]) /\ heap[id].email_mx_valid
               /\ ~heap[id].website_valid)
                 => /\ heap[id].validation_score = 75
                    /\ heap[id].status_verified = "VALID"
                          <=> min_validation_score <= 75

C8_FourVerdictsAlways ==
    /\ \A id \in Results : heap[id].has_results
    /\ (Returned(1) /\ Missing(GetOrEmpty(CurrentBuyer.company_name)))
          => ~validation_results.company_name_valid
    /\ (Returned(2) /\ Missing(GetOrEmpty(CurrentBuyer.email)))
          => ~validation_results.email_valid
    /\ (Returned(3) /\ Missing(GetOrEmpty(CurrentBuyer.phone)))
          => ~validation_results.phone_valid
    /\ (Returned(4) /\ Missing(GetOrEmpty(CurrentBuyer.website)))
          => ~validation_results.website_valid
    /\ (reply.service = "mx" /\ reply.mx # "records")
          => ~validation_results.email_valid
    /\ (reply.service = "http"
        /\ (reply.http.kind # "status" \/ reply.http.status \notin 200..399))
          => ~validation_results.website_valid

\* C10: no step changes a record of the input, and every record
\* validate_batch_data returns is a new object.
C10_InputNeverMutated ==
    [][/\ \A id \in 1..Len(source_data) : heap'[id] = heap[id]
       /\ \A k \in 1..Len(validated_buyers') :
             validated_buyers'[k] > Len(source_data)]_vars

----------------------------------------------------------------------------
(* Properties of a run of start_scraping on one batch, over Spec. *)

Rejected ==
    Cardinality({k \in 1..Len(validated_buyers) :
                    heap[validated_buyers[k]].status_verified # "VALID"})

Duplicates == Cardinality({i \in 1..pos : ~Kept(i)})

\* C1: when the run on a batch is over, the records of the batch are the
\* accepted ones, the rejected ones (status INVALID or ERROR) and the ones
\* dropped as duplicates: total = accepted + rejected + duplicates.
C1_Totality ==
    pc \in {"done", "raised"} =>
        Len(source_data) = Len(valid_buyers) + Rejected + Duplicates

\* the same count for the runs whose deduplication returns
TotalityWhenDedupReturns ==
    pc = "done" =>
        Len(source_data) = Len(valid_buyers) + Rejected + Duplicates

----------------------------------------------------------------------------
(* Properties of the reasons and of the phone verdict, over SpecValidate. *)

Listed(reasons, r) == \E k \in 1..Len(reasons) : reasons[k] = r

\* the email is well-formed and its domain is a disposable one
HasDisposableEmail(buyer) ==
    /\ EmailWellFormed(GetOrEmpty(buyer.email))
    /\ EmailDomain(buyer.email.s) \in disposable_domains

\* C11: a record whose email is well-formed with a disposable domain has
\* the email flagged disposable, is not accepted, and has a
\* disposable-email reason among its reasons.
C11_DisposableEmailReason ==
    \A id \in Results :
        (heap[id].has_results /\ HasDisposableEmail(heap[id])) =>
           /\ heap[id].email_disposable
           /\ heap[id].status_verified # "VALID"
           /\ Listed(heap[id].verification_reason, "Disposable email")

\* the flag and the rejection alone
DisposableEmailRejected ==
    \A id \in Results :
        (heap[id].has_results /\ HasDisposableEmail(heap[id])) =>
           /\ heap[id].email_disposable
           /\ heap[id].status_verified # "VALID"

\* C12: the reason of a validated record is 'All validations passed'
\* exactly when its status is VALID, and every record that is not accepted
\* carries at least one reason.
C12_ReasonsEmptyIffAccepted ==
    \A id \in Results :
        /\ heap[id].status_verified = "VALID"
              <=> heap[id].verification_reason = <<"All validations passed">>
        /\ heap[id].status_verified # "VALID"
              => /\ heap[id].verification_reason # <<>>
                 /\ ~Listed(heap[id].verification_reason, "All validations passed")

\* a record has been accepted with the no-issue reason
C12_Witness ==
    /\ pc = "done"
    /\ Len(valid_buyers) = 1
    /\ heap[valid_buyers[1]].verification_reason = <<"All validations passed">>

\* C13: the reasons of a rejected record list every failed gate (name,
\* email, disposable email, phone), and a record that passes every gate and
\* is rejected for its score alone gets the reason 'Low validation score'.
C13_ReasonsListFailedGates ==
    \A id \in Results :
        (heap[id].has_results /\ heap[id].status_verified # "VALID") =>
           LET reasons == heap[id].verification_reason
           IN /\ ~heap[id].company_name_valid => Listed(reasons, "Invalid company name")
              /\ (~heap[id].email_valid /\ ~heap[id].email_disposable)
                    => Listed(reasons, "Invalid email")
              /\ heap[id].email_disposable => Listed(reasons, "Disposable email")
              /\ ~heap[id].phone_valid => Listed(reasons, "Invalid phone number")
              /\ GatesHold(heap[id]) => Listed(reasons, "Low validation score")

\* the gates the reasons do list: name, email and phone
NamedGatesListed ==
    \A id \in Results :
        (heap[id].has_results /\ heap[id].status_verified # "VALID") =>
           LET reasons == heap[id].verification_reason
           IN /\ ~heap[id].company_name_valid => Listed(reasons, "Invalid company name")
              /\ ~heap[id].email_valid => Listed(reasons, "Invalid email")
              /\ ~heap[id].phone_valid => Listed(reasons, "Invalid phone number")

\* the reason 'Low validation score' is never given
LowScoreReasonNeverGiven ==
    \A id \in 1..Len(heap) : ~Listed(heap[id].verification_reason, "Low validation score")

\* the cleaned phone is too short or one of the fake numbers
HasFakePhone(buyer) ==
    /\ GetOrEmpty(buyer.phone).t = "str"
    /\ IsFakePhone(CleanPhone(GetOrEmpty(buyer.phone).s))

\* C14: a phone whose cleaned form is shorter than 10 characters or is one
\* of 0000000000, 1111111111, 1234567890 is invalid without a call of
\* phonenumbers, and its record is rejected whatever the other verdicts are.
C14_FakePhoneRejected ==
    /\ (Returned(3) /\ HasFakePhone(CurrentBuyer)) =>
          /\ ~validation_results.phone_valid
          /\ reply.service # "lib"
    /\ \A id \in Results :
          (heap[id].has_results /\ HasFakePhone(heap[id])) =>
             /\ ~heap[id].phone_valid
             /\ heap[id].status_verified = "INVALID"

\* the fake number 1234567890 has been rejected next to a valid name, email
\* and website
C14_Witness ==
    /\ pc = "done"
    /\ \E id \in Results :
          /\ heap[id].phone = PhoneFake
          /\ heap[id].company_name_valid
          /\ heap[id].email_valid
          /\ heap[id].website_valid
          /\ ~heap[id].phone_valid
          /\ heap[id].status_verified = "INVALID"
    /\ valid_buyers = <<>>

----------------------------------------------------------------------------
(* Properties of the batch and of the order of the steps, over Spec, and   *)
(* of the similar names, over SpecDedup.                                   *)

\* the dict `result` holds the input keys of the dict `buyer`
ResultOf(result, buyer) ==
    /\ result.company_name = buyer.company_name
    /\ result.email = buyer.email
    /\ result.phone = buyer.phone
    /\ result.website = buyer.website

\* C16: validate_batch_data returns one result for each record it is given,
\* in the order given; a record whose validation fails comes back with the
\* status ERROR, which is not accepted, and the records after it are
\* validated all the same.
C16_BatchSurvivesFailure ==
    /\ Len(validated_buyers) <= Len(unique_buyers)
    /\ \A k \in 1..Len(validated_buyers) :
          LET result == heap[validated_buyers[k]]
          IN /\ ResultOf(result, heap[unique_buyers[k]])
             /\ result.status_verified \in {"VALID", "INVALID", "ERROR"}
             /\ result.status_verified # "ERROR" => result.has_results
    /\ (pc \notin {"dedup", "validate"} /\ unique_buyers # <<>>)
          => Len(validated_buyers) = Len(unique_buyers)
    /\ \A k \in 1..Len(valid_buyers) :
          heap[valid_buyers[k]].status_verified # "ERROR"

\* the first of three records failed, and the two after it were validated
\* and one of them accepted
C16_Witness ==
    /\ pc = "done"
    /\ Len(validated_buyers) = 3
    /\ heap[validated_buyers[1]].status_verified = "ERROR"
    /\ heap[validated_buyers[2]].has_results
    /\ heap[validated_buyers[3]].has_results
    /\ Len(valid_buyers) >= 1

\* C17: the steps on a batch are ordered: no record is validated before
\* deduplication has scanned the whole batch, the records validated are the
\* kept ones, each once and in order, and the accepted set is filtered only
\* after every kept record has been validated.
C17_StepsOrdered ==
    /\ pc = "dedup" =>
          /\ validated_buyers = <<>>
          /\ validation_results = NoResults
          /\ valid_buyers = <<>>
    /\ (pc = "validate" \/ validated_buyers # <<>> \/ validation_results.step > 0)
          => pos = Len(source_data)
    /\ Len(validated_buyers) <= Len(unique_buyers)
    /\ \A k \in 1..Len(validated_buyers) :
          ResultOf(heap[validated_buyers[k]], heap[unique_buyers[k]])
    /\ \A k \in 1..Len(unique_buyers) : Kept(unique_buyers[k])
    /\ pc \in {"filter", "done"} => Len(validated_buyers) = Len(unique_buyers)
    /\ valid_buyers # <<>> => pc = "done"

\* a run is over in which a duplicate was dropped and the two kept records
\* were validated and one of them accepted
C17_Witness ==
    /\ pc = "done"
    /\ Len(source_data) = 3
    /\ Len(unique_buyers) = 2
    /\ Len(validated_buyers) = 2
    /\ Len(valid_buyers) = 1

\* C20: a record whose name key is more than 0.85 similar to the name key
\* of a named record kept before it is dropped, also when the two share no
\* email and no phone, so no two kept records with non-empty names have
\* names that similar.
C20_SimilarNamesDropped ==
    /\ \A j \in 1..pos :
          (\E i \in 1..(j - 1) :
              /\ Kept(i)
              /\ CompanyKey(heap[i]) # <<>>
              /\ SimilarityAbove85(CompanyKey(heap[j]), CompanyKey(heap[i])))
          => ~Kept(j)
    /\ \A i, j \in 1..pos :
          (i < j /\ Kept(i) /\ Kept(j)
           /\ CompanyKey(heap[i]) # <<>> /\ CompanyKey(heap[j]) # <<>>)
          => /\ ~SimilarityAbove85(CompanyKey(heap[j]), CompanyKey(heap[i]))
             /\ ~SimilarityAbove85(CompanyKey(heap[i]), CompanyKey(heap[j]))

\* of two records whose names differ by a trailing period, with different
\* emails and phones, the second has been dropped
C20_Witness ==
    /\ pc = "validate"
    /\ pos = 2
    /\ unique_buyers = <<1>>
    /\ CompanyKey(heap[2]) = CompanyKey(heap[1]) \o <<".">>
    /\ EmailKey(heap[1]) # EmailKey(heap[2])
    /\ PhoneKey(heap[1]) # PhoneKey(heap[2])

----------------------------------------------------------------------------
(* Properties of the calls a validation makes. *)

\* the hints of the mocked library that give a valid number
ValidHints == {h \in 1..Len(RegionHints) : ~mock.lib[h].raises /\ mock.lib[h].valid}

FirstValidHint == CHOOSE h \in ValidHints : \A g \in ValidHints : h <= g

\* the digits of an E.164 format after '+' and the two digits of the
\* calling code
Subscriber(format) == SubSeq(format, 4, Len(format))

IndianMobile(format) ==
    /\ Len(Subscriber(format)) = 10
    /\ Subscriber(format)[1] \in {"7", "8", "9"}
    /\ IsDigit(Subscriber(format)[2])

\* C15, over SpecMock: the hints are tried in the order IN, US, GB, none,
\* and the first that gives a valid number decides: a number of the region
\* IN is valid exactly when its subscriber number has 10 digits and begins
\* with 70 to 99, a number of another region is valid, and without a valid
\* hint the phone is invalid.
C15_FirstValidHintDecides ==
    (Returned(3) /\ PhoneAsksLib(GetOrEmpty(CurrentBuyer.phone))) =>
        /\ RegionHints = <<"IN", "US", "GB", "">>
        /\ IF ValidHints = {}
           THEN ~validation_results.phone_valid
           ELSE LET answer == mock.lib[FirstValidHint]
                IN IF answer.country = "IN"
                   THEN validation_results.phone_valid <=> IndianMobile(answer.format)
                   ELSE validation_results.phone_valid

\* the hint IN gave a valid Indian number of 10 digits that begin with 11,
\* the hint US a valid number of the region US, and the phone is invalid
C15_Witness ==
    /\ Returned(3)
    /\ validation_results.step = 3
    /\ CurrentBuyer.phone = PhoneLandline
    /\ ValidHints # {}
    /\ FirstValidHint = 1
    /\ mock.lib[1].country = "IN"
    /\ Len(Subscriber(mock.lib[1].format)) = 10
    /\ ~IndianMobile(mock.lib[1].format)
    /\ 2 \in ValidHints
    /\ mock.lib[2].country = "US"
    /\ ~validation_results.phone_valid

\* C18, over SpecValidate: a field validator issues at most one MX lookup
\* and at most one HTTP request in a call, also when the first fails.
C18_NoRetry == reply.asked <= 1

\* the same for the validators of AdvancedDataValidator alone
AdvancedAsksOnce == pc \notin {"dv", "dv_done"} => reply.asked <= 1

----------------------------------------------------------------------------
(* Properties of the batch-level deadline, over SpecDeadline. *)

\* the records whose validation was not complete when the deadline passed
Unresolved == (deadline.completed + 1)..Len(unique_buyers)

\* C21: when the deadline of the batch has passed during the run, no record
\* whose validation was not complete by then is accepted (each counts as
\* rejected), and the pipeline returns the validations that were complete by
\* then instead of going on with the others
C21_DeadlineReturnsPartial ==
    (deadline.passed /\ pc = "done") =>
        /\ \A k \in Unresolved :
              k <= Len(validated_buyers) =>
                  /\ ~IsValidBuyer(validated_buyers[k])
                  /\ \A j \in 1..Len(valid_buyers) :
                        valid_buyers[j] # validated_buyers[k]
        /\ Len(validated_buyers) = deadline.completed

----------------------------------------------------------------------------
(* Properties of DataValidator.validate_batch_data, over SpecBatch. *)

\* the places of the output that hold the result of company k
EntriesOf(k) ==
    {j \in 1..Len(validated_companies) : validated_companies[j].company = source_data[k]}

\* C22: whatever the order in which the workers complete, the batch
\* returns exactly one entry per company, each the result of its own
\* worker; the entry of a company whose worker raised is the company
\* itself, marked not verified with score 0
C22_OneResultPerCompany ==
    pc = "dv_batch_done" =>
        /\ Len(validated_companies) = Len(source_data)
        /\ \A k \in 1..Len(source_data) :
              /\ Cardinality(EntriesOf(k)) = 1
              /\ \A j \in EntriesOf(k) :
                    LET entry == validated_companies[j]
                    IN IF futures[k].raised
                       THEN /\ entry.original
                            /\ ~entry.validated.status_verified
                            /\ entry.validated.validation_score = 0
                       ELSE /\ ~entry.original
                            /\ entry.validated = futures[k].result

\* three companies returned in another order than they came in, the worker
\* of the second having raised
C22_Witness ==
    /\ pc = "dv_batch_done"
    /\ Len(validated_companies) = 3
    /\ validated_companies[1].company = 3
    /\ validated_companies[2].company = 1
    /\ futures[2].raised
    /\ validated_companies[3].original
    /\ validated_companies[1].validated.status_verified

----------------------------------------------------------------------------
(* Properties of merge_dataframes, over SpecMerge. *)

\* the rows of the two inputs that carry the name
InputRows(name) ==
    {existing_df[i] : i \in {i \in 1..Len(existing_df) :
                                existing_df[i].company_name = name}}
    \cup {new_df[i] : i \in {i \in 1..Len(new_df) : new_df[i].company_name = name}}

InputNames ==
    {existing_df[i].company_name : i \in 1..Len(existing_df)}
    \cup {new_df[i].company_name : i \in 1..Len(new_df)}

\* C23: when two DataFrames that are not empty are merged, every company
\* name of either input is in exactly one row of the result, that row is
\* one of the input rows of the name, and none of them has a higher
\* data_quality_score
C23_MergeKeepsBestRow ==
    (pc = "merged" /\ existing_df # <<>> /\ new_df # <<>>) =>
        /\ \A i \in 1..Len(combined_df) : combined_df[i].company_name \in InputNames
        /\ \A name \in InputNames :
              LET places == {i \in 1..Len(combined_df) :
                               combined_df[i].company_name = name}
              IN /\ Cardinality(places) = 1
                 /\ \A i \in places :
                       /\ combined_df[i] \in InputRows(name)
                       /\ \A row \in InputRows(name) :
                             row.data_quality_score
                                <= combined_df[i].data_quality_score

\* a name is in both inputs, the accumulated row first and with the lower
\* score, and the merged data holds the new row
C23_Witness ==
    /\ pc = "merged"
    /\ existing_df # <<>>
    /\ new_df # <<>>
    /\ existing_df[1] = Row(NameAbc.s, 5, 1)
    /\ \E i \in 1..Len(new_df) : new_df[i] = Row(NameAbc.s, 7, 2)
    /\ \E i \in 1..Len(combined_df) : combined_df[i] = Row(NameAbc.s, 7, 2)
    /\ Len(combined_df) = 3

----------------------------------------------------------------------------
(* Properties of the score of validate_complete_buyer_data, over           *)
(* SpecValidate.                                                           *)

Points(verdict, weight) == IF verdict THEN weight ELSE 0

\* C24: in every validation result the email is valid exactly when its MX
\* lookup succeeded and the website is valid exactly when it is active, so
\* the score is 20 for the name, 30 for the email, 25 for the phone and 25
\* for the website, and is 100 exactly when the four fields are valid
C24_BonusesNeverApart ==
    \A id \in 1..Len(heap) :
        heap[id].has_results =>
            /\ heap[id].email_valid <=> heap[id].email_mx_valid
            /\ heap[id].website_valid <=> heap[id].website_active
            /\ heap[id].validation_score =
                    Points(heap[id].company_name_valid, 20)
                  + Points(heap[id].email_valid, 30)
                  + Points(heap[id].phone_valid, 25)
                  + Points(heap[id].website_valid, 25)
            /\ heap[id].validation_score = 100
                 <=> /\ heap[id].company_name_valid
                     /\ heap[id].email_valid
                     /\ heap[id].phone_valid
                     /\ heap[id].website_valid

\* an email of valid format whose MX lookup failed is invalid and earns
\* nothing, next to a website that is active: the score is 70
C24_Witness ==
    \E id \in 1..Len(heap) :
        /\ heap[id].has_results
        /\ EmailWellFormed(GetOrEmpty(heap[id].email))
        /\ ~heap[id].email_disposable
        /\ ~heap[id].email_valid
        /\ ~heap[id].email_mx_valid
        /\ heap[id].website_valid
        /\ heap[id].website_active
        /\ heap[id].validation_score = 70

----------------------------------------------------------------------------
(* Properties of the seen-sets of remove_duplicates_advanced, over         *)
(* SpecDedup.                                                              *)

KeptBuyers == {heap[unique_buyers[k]] : k \in 1..Len(unique_buyers)}

\* the seen-sets hold the non-empty keys of the records kept so far, and
\* nothing else
SeenSetsExact ==
    /\ seen_companies = {CompanyKey(buyer) : buyer \in KeptBuyers} \ {<<>>}
    /\ seen_emails = {EmailKey(buyer) : buyer \in KeptBuyers} \ {<<>>}
    /\ seen_phones = {PhoneKey(buyer) : buyer \in KeptBuyers} \ {<<>>}

\* the records kept among those scanned before record i: their keys are
\* what the seen-sets held when record i was scanned
KeptBefore(i) == {heap[j] : j \in {j \in 1..(i - 1) : Kept(j)}}

NameSeen(i) ==
    /\ CompanyKey(heap[i]) # <<>>
    /\ \E earlier \in KeptBefore(i) : CompanyKey(earlier) = CompanyKey(heap[i])

EmailSeen(i) ==
    /\ EmailKey(heap[i]) # <<>>
    /\ \E earlier \in KeptBefore(i) : EmailKey(earlier) = EmailKey(heap[i])

PhoneSeen(i) ==
    /\ PhoneKey(heap[i]) # <<>>
    /\ \E earlier \in KeptBefore(i) : PhoneKey(earlier) = PhoneKey(heap[i])

----------------------------------------------------------------------------
(* Properties of start_scraping, over SpecApp (the function as the        *)
(* dashboard calls it) and SpecLoop (the rest of the call for a batch      *)
(* that has been handed over).                                            *)

\* C26: at the end of an iteration the candidates the collector holds
\* have been handed to deduplication, validation and filtering, and every
\* one of them that validated as VALID is in collected_data.
C26_CandidatesReachPipeline ==
    pc = "sleep" =>
       /\ source_data = [k \in 1..Len(heap) |-> k]
       /\ Len(validated_buyers) = Len(unique_buyers)
       /\ \A id \in 1..Len(heap) :
             heap[id].status_verified = "VALID" =>
                \E k \in 1..Len(collected_data) : collected_data[k] = id

\* C27: every record of collected_data has the status VALID, a record
\* with the status INVALID or ERROR is never in it, and the collector is
\* not called again once the count has reached target_count.
C27_CollectedAllValid ==
    /\ \A k \in 1..Len(collected_data) :
          heap[collected_data[k]].status_verified = "VALID"
    /\ \A id \in 1..Len(heap) :
          heap[id].status_verified \in {"INVALID", "ERROR"} =>
             \A k \in 1..Len(collected_data) : collected_data[k] # id
    /\ pc = "scrape" => total_collected < target_count

\* the target was reached with a source still to go while a record of the
\* batch was rejected, and the loops were left
C27_Witness ==
    /\ pc = "final"
    /\ source_index <= Len(sources)
    /\ total_collected >= target_count
    /\ collected_data # <<>>
    /\ \E id \in 1..Len(heap) :
          heap[id].status_verified \in {"INVALID", "ERROR"}

----------------------------------------------------------------------------
(* Idempotence of remove_duplicates_advanced, over SpecDedupTwice. *)

\* C29: remove_duplicates_advanced applied to the list it has returned
\* returns that list, the same records in the same order, and does not
\* raise.
C29_DedupIdempotent ==
    second_pass =>
       /\ pc # "raised"
       /\ pc = "validate" => unique_buyers = source_data
       /\ pc = "dedup" => unique_buyers = SubSeq(source_data, 1, pos)

\* the first call removed a record of three, the second call has returned
C29_Witness ==
    /\ second_pass
    /\ pc = "validate"
    /\ Len(heap) = 3
    /\ Len(source_data) = 2
    /\ unique_buyers = source_data

----------------------------------------------------------------------------
(* Properties of _make_request and _make_advanced_request, over           *)
(* SpecRequest.                                                           *)

\* the call has ended
RequestOver == pc \in {"returned", "propagated"}

\* what holds of a call at every moment
RequestBounded ==
    /\ tried <= max_retries
    /\ failed <= tried
    /\ (pc = "returned" /\ response = "response") =>
          /\ tried = attempt + 1
          /\ failed = attempt
    /\ (pc = "returned" /\ response = "None") =>
          /\ tried = max_retries
          /\ failed = max_retries
    /\ response = "not returned" <=> pc # "returned"
    /\ \A k \in 1..Len(slept) :
          /\ slept[k].after = k - 1
          /\ slept[k].after < max_retries - 1
          /\ slept[k].wait_time >= Pow2(k - 1)
          /\ slept[k].wait_time <= Pow2(k)
    /\ Len(slept) <= failed
    /\ pc \in {"cloud", "get"} => Len(slept) = tried - 1
    /\ RequestOver => Len(slept) < tried \/ tried = 0

\* C30: a call ends, after at most max_retries attempts; it returns the
\* response of the first attempt that succeeds and makes no attempt after
\* it, returns None when max_retries attempts have failed with a request
\* error, and waits only between two attempts, the wait after attempt n
\* (from 0) being between 2 ** n and 2 ** (n + 1) seconds.
C30_RequestEndsWithinRetries == []RequestBounded /\ <>RequestOver

\* three attempts failed, two waits were taken, None was returned
C30_Witness ==
    /\ pc = "returned"
    /\ response = "None"
    /\ max_retries = 3
    /\ tried = 3
    /\ failed = 3
    /\ Len(slept) = 2

====
